---- MODULE Spec2Model ----
(***************************************************************************)
(* woj::dynamic_bitset<BlockType> (src/include/woj/bitset.hpp) as a state  *)
(* machine over a small heap.  Every instance is the four members          *)
(* m_partial_size, m_storage_size, m_size, m_data; m_data is a pointer     *)
(* into `heap` (0 is nullptr).  Each public operation is one action.       *)
(*                                                                         *)
(* Representation choices:                                                 *)
(*  - a block is a natural number below 2^bs, bs the bit width of the      *)
(*    instance's BlockType (uint8_t or uint16_t);                          *)
(*  - std::size_t is 64 bits wide in the program; TLC's integers are 32    *)
(*    bits wide, so size_type arithmetic is done modulo size_type_mod, a   *)
(*    power of two that is a multiple of every block width, exactly as the *)
(*    64-bit modulus is;                                                   *)
(*  - storage obtained from new[] and not yet written is indeterminate: it *)
(*    is filled with a value chosen nondeterministically from              *)
(*    Indeterminate; a shift by a negative count or by 32 or more is       *)
(*    undefined: its result is chosen from UndefinedShift;                 *)
(*  - a write outside a buffer, any access through nullptr or through a    *)
(*    released buffer, a second release and a failed allocation end the    *)
(*    run: `fault` names what happened.  A read past the end of a live     *)
(*    buffer yields an indeterminate block and is recorded in the          *)
(*    operation's `viol` set;                                              *)
(*  - woj::bitset<BlockType, Size> has the same members with m_size fixed  *)
(*    at Size, and its run-time member functions have the text of the     *)
(*    dynamic ones: an instance that is never resized stands for it;       *)
(*  - const member functions and the operators that return a new bitset    *)
(*    work on the value of an instance (its members and blocks, ValueOf);  *)
(*    a block is stored least significant byte first.                      *)
(*                                                                         *)
(* Specifications: Spec (construction, assignment, growth), CallSpec (one  *)
(* member function call on a constructed bitset), MutSpec (the mutating    *)
(* operations that the queries are read after), WideSpec (operator== on    *)
(* 32 and 64 bit blocks, given by the positions of their set bits),        *)
(* ShiftSpec (one shift or rotate), VariantSpec (one prefix or strided     *)
(* range call) and StringSpec (a fixed bitset made from a string and       *)
(* written back).                                                          *)
(***************************************************************************)
EXTENDS Integers, Sequences, FiniteSets

VARIABLES
    obj,    \* the instances: [alive, bs, m_partial_size, m_storage_size, m_size, m_data]
    heap,   \* the buffers: [live, arr, blk]
    hist,   \* the last operations, newest first, each with the state it started in
    done,   \* the names of the operations performed so far
    nops,   \* how many operations were performed after the first construction
    fault   \* "none", or what ended the run

vars == <<obj, heap, hist, done, nops, fault>>

(* ------------------------------ bounds --------------------------------- *)

\* largest bit count handed to a constructor, to resize or to insert
MaxSize == 9
\* number of operations performed after the first construction
MaxOps == 2
\* number of heap buffers that can exist at the same time
NumBufs == 5
\* largest number of blocks operator new[] hands out
MaxAlloc == 40
\* largest bitset a single member function is called on
MaxBits == 17
\* largest step of the strided range functions
MaxStep == 2
\* largest shift count below the largest size_type
MaxShift == 34
\* longest string a fixed bitset is made from
MaxChars == 10

(* --------------------------- program constants ------------------------- *)

\* std::size_t wraps modulo this value (see the header comment)
size_type_mod == 65536
\* m_partial_size is a uint8_t
uint8_mod == 256
\* the block types instantiated: uint8_t and uint16_t
BlockSizes == {8, 16}
\* two instances of the class
Objs == {1, 2}
BufIds == 1..NumBufs
nullptr == 0

\* values indeterminate storage may hold
Indeterminate == {0, 165}
\* results an undefined shift may produce
UndefinedShift == {0, 1, 128}
\* block values passed by callers
BlockInputs == {0, 165, 255}

(* ----------------------------- bit arithmetic -------------------------- *)

Pow2(n) == 2 ^ n

block_max(bs) == Pow2(bs) - 1

Min(a, b) == IF a < b THEN a ELSE b

BitAt(x, i) == (x \div Pow2(i)) % 2

\* x | y on bs-bit blocks
BitOr(x, y, bs) ==
    LET f[i \in 0..bs] ==
            IF i = bs THEN 0
            ELSE (IF BitAt(x, i) = 1 \/ BitAt(y, i) = 1 THEN Pow2(i) ELSE 0) + f[i + 1]
    IN f[0]

\* x & ~y on bs-bit blocks
BitAndNot(x, y, bs) ==
    LET f[i \in 0..bs] ==
            IF i = bs THEN 0
            ELSE (IF BitAt(x, i) = 1 /\ BitAt(y, i) = 0 THEN Pow2(i) ELSE 0) + f[i + 1]
    IN f[0]

\* x ^ y on bs-bit blocks
BitXor(x, y, bs) ==
    LET f[i \in 0..bs] ==
            IF i = bs THEN 0
            ELSE (IF BitAt(x, i) # BitAt(y, i) THEN Pow2(i) ELSE 0) + f[i + 1]
    IN f[0]

\* BlockType{ 1 } << n, stored into a bs-bit block.  For uint8_t and uint16_t
\* the operand is promoted to a 32-bit int: counts 0..31 are defined (the
\* bits at bs and above are lost in the store), every other count is
\* undefined and yields ub.
shl_one(bs, n, ub) ==
    IF n >= 0 /\ n < bs THEN Pow2(n)
    ELSE IF n >= bs /\ n < 32 THEN 0
    ELSE ub

(* --------------------------------- heap -------------------------------- *)

FreeBuf == [live |-> FALSE, arr |-> TRUE, blk |-> <<>>]

NoObj == [alive |-> FALSE, bs |-> 8, m_partial_size |-> 0, m_storage_size |-> 0,
          m_size |-> 0, m_data |-> nullptr]

\* the machine an operation works on: the instances, the heap, the memory
\* rule violations seen so far in this operation, and the fault that ended it
Machine(ob, hp) == [obj |-> ob, heap |-> hp, viol |-> {}, fault |-> "none"]

\* the machine before anything is constructed
Empty == Machine([o \in Objs |-> NoObj], [p \in BufIds |-> FreeBuf])

Fault(M, kind) == IF M.fault = "none" THEN [M EXCEPT !.fault = kind] ELSE M

Violation(M, kind) == [M EXCEPT !.viol = @ \cup {kind}]

\* the buffer operator new returns next: the lowest one that is neither live
\* nor still pointed to by an instance (0 when the heap of the model is used up)
FreshId(M) ==
    LET free == {p \in BufIds : ~M.heap[p].live /\ \A o \in Objs : M.obj[o].m_data # p}
    IN IF free = {} THEN 0 ELSE CHOOSE p \in free : \A q \in free : p <= q

Accessible(M, p, i) ==
    /\ p # nullptr
    /\ M.heap[p].live
    /\ i >= 0
    /\ i < Len(M.heap[p].blk)

AccessFault(M, p) ==
    IF p = nullptr THEN "null_dereference"
    ELSE IF ~M.heap[p].live THEN "use_after_free"
    ELSE "write_out_of_bounds"

\* new BlockType[n] (arr) or new BlockType (~arr, n = 1) into buffer p,
\* contents indeterminate (g)
new_array(M, p, n, g, arr) ==
    IF M.fault # "none" THEN M
    ELSE IF p = 0 \/ n > MaxAlloc \/ n < 0 THEN Fault(M, "bad_alloc")
    ELSE [M EXCEPT !.heap[p] = [live |-> TRUE, arr |-> arr, blk |-> [i \in 1..n |-> g]]]

\* delete[] p
delete_array(M, p) ==
    IF M.fault # "none" \/ p = nullptr THEN M
    ELSE IF ~M.heap[p].live THEN Fault(M, "double_free")
    ELSE LET M1 == IF M.heap[p].arr THEN M ELSE Violation(M, "delete[] of new")
         IN [M1 EXCEPT !.heap[p] = FreeBuf]

\* *(p + i) = v
write_block(M, p, i, v) ==
    IF M.fault # "none" THEN M
    ELSE IF Accessible(M, p, i) THEN [M EXCEPT !.heap[p].blk[i + 1] = v]
    ELSE Fault(M, AccessFault(M, p))

\* the value of *(p + i); g when the read is past the end of the buffer
read_block(M, p, i, g) ==
    IF Accessible(M, p, i) THEN M.heap[p].blk[i + 1] ELSE g

\* std::copy(src, src + n, dst)
std_copy(M, src, n, dst, g) ==
    IF M.fault # "none" \/ n <= 0 THEN M
    ELSE IF src = nullptr \/ dst = nullptr THEN Fault(M, "null_dereference")
    ELSE IF ~M.heap[src].live \/ ~M.heap[dst].live THEN Fault(M, "use_after_free")
    ELSE IF n > Len(M.heap[dst].blk) THEN Fault(M, "write_out_of_bounds")
    ELSE LET sb == M.heap[src].blk
             M1 == IF n > Len(sb) THEN Violation(M, "read_out_of_bounds") ELSE M
         IN [M1 EXCEPT !.heap[dst].blk =
                [i \in 1..Len(@) |-> IF i <= n THEN (IF i <= Len(sb) THEN sb[i] ELSE g)
                                     ELSE @[i]]]

\* ::memset(p + from, byte, n * sizeof(BlockType)) with byte 0 or 255: the n
\* blocks become v (0 or the block type's maximum)
memset_blocks(M, p, from, n, v) ==
    IF M.fault # "none" \/ n <= 0 THEN M
    ELSE IF p = nullptr THEN Fault(M, "null_dereference")
    ELSE IF ~M.heap[p].live THEN Fault(M, "use_after_free")
    ELSE IF from + n > Len(M.heap[p].blk) THEN Fault(M, "write_out_of_bounds")
    ELSE [M EXCEPT !.heap[p].blk =
             [i \in 1..Len(@) |-> IF i > from /\ i <= from + n THEN v ELSE @[i]]]

(* --------------------- single bits and whole fills --------------------- *)

\* 1 when x is non-zero: the !!x of the source
NotNot(x) == IF x # 0 THEN 1 ELSE 0

\* dynamic_bitset::test(index)
test(M, o, index, g) ==
    BitAt(read_block(M, M.obj[o].m_data, index \div M.obj[o].bs, g), index % M.obj[o].bs) = 1

\* dynamic_bitset::set(index, value)
set_value(M, o, index, value) ==
    LET bs == M.obj[o].bs
        p == M.obj[o].m_data
        i == index \div bs
        mask == Pow2(index % bs)
    IN IF M.fault # "none" THEN M
       ELSE IF ~Accessible(M, p, i) THEN Fault(M, AccessFault(M, p))
       ELSE IF value THEN write_block(M, p, i, BitOr(M.heap[p].blk[i + 1], mask, bs))
       ELSE write_block(M, p, i, BitAndNot(M.heap[p].blk[i + 1], mask, bs))

\* dynamic_bitset::clear()
clear(M, o) == memset_blocks(M, M.obj[o].m_data, 0, M.obj[o].m_storage_size, 0)

\* dynamic_bitset::fill(value)
fill(M, o, value) ==
    memset_blocks(M, M.obj[o].m_data, 0, M.obj[o].m_storage_size,
                  IF value THEN block_max(M.obj[o].bs) ELSE 0)

\* dynamic_bitset::fill_block(block)
fill_block(M, o, block) ==
    memset_blocks(M, M.obj[o].m_data, 0, M.obj[o].m_storage_size, block)

(* ----------------------------- constructors ---------------------------- *)

\* the member initializer list shared by the sized constructors:
\* m_partial_size(partial), m_storage_size(storage), m_size(size),
\* m_data(new BlockType[m_storage_size])
init_members(M, o, bs, partial, storage, size, g) ==
    LET p == FreshId(M)
        M1 == new_array(M, p, storage, g, TRUE)
    IN [M1 EXCEPT !.obj[o] = [alive |-> TRUE, bs |-> bs,
                              m_partial_size |-> partial % uint8_mod,
                              m_storage_size |-> storage % size_type_mod,
                              m_size |-> size % size_type_mod,
                              m_data |-> p]]

\* dynamic_bitset()
ctor_default(M, o, bs) ==
    [M EXCEPT !.obj[o] = [alive |-> TRUE, bs |-> bs, m_partial_size |-> 0,
                          m_storage_size |-> 0, m_size |-> 0, m_data |-> nullptr]]

\* dynamic_bitset(size)
ctor_size(M, o, bs, size, g) ==
    clear(init_members(M, o, bs, size % bs, size \div bs + NotNot(size % bs), size, g), o)

\* dynamic_bitset(size, bool val)
ctor_size_val(M, o, bs, size, val, g) ==
    fill(init_members(M, o, bs, size % bs, size \div bs + NotNot(size % bs), size, g), o, val)

\* dynamic_bitset(size, block)
ctor_size_block(M, o, bs, size, block, g) ==
    fill_block(init_members(M, o, bs, size % bs, size \div bs + NotNot(size % bs), size, g),
               o, block)

\* _from_other(const dynamic_bitset&): `this` is o
_from_other(M, o, other, g) ==
    LET t == M.obj[o]
        s == M.obj[other]
        M1 == IF o # other
              THEN std_copy(M, s.m_data, Min(t.m_storage_size, s.m_storage_size), t.m_data, g)
              ELSE M
    IN memset_blocks(M1, t.m_data, s.m_storage_size, t.m_storage_size - s.m_storage_size, 0)

\* dynamic_bitset(const dynamic_bitset& other)
ctor_copy(M, o, other, g) ==
    LET s == M.obj[other]
    IN _from_other(init_members(M, o, s.bs, s.m_partial_size, s.m_storage_size, s.m_size, g),
                   o, other, g)

\* dynamic_bitset(size, const dynamic_bitset& other)
ctor_size_copy(M, o, size, other, g) ==
    LET bs == M.obj[other].bs
    IN _from_other(init_members(M, o, bs, size % bs, size \div bs + NotNot(size % bs), size, g),
                   o, other, g)

\* dynamic_bitset(dynamic_bitset&& other): inside the constructor `other` is
\* an lvalue, so _from_other(other) is the copy function above
ctor_move(M, o, other, g) ==
    LET s == M.obj[other]
        M1 == [M EXCEPT !.obj[o] = [alive |-> TRUE, bs |-> s.bs,
                                    m_partial_size |-> s.m_partial_size,
                                    m_storage_size |-> s.m_storage_size,
                                    m_size |-> s.m_size, m_data |-> s.m_data]]
    IN _from_other(M1, o, other, g)

\* _from_other(const dynamic_bitset<OtherBlockType>&)
_from_other_conv(M, o, other) ==
    LET t == M.obj[o]
        s == M.obj[other]
        M1 == clear(M, o)
        sb == M1.heap[s.m_data].blk
        wider == t.bs > s.bs
        diff == IF wider THEN t.bs \div s.bs ELSE s.bs \div t.bs
        \* blocks of the source read, blocks of the destination written
        nread == IF wider THEN Min(s.m_storage_size, t.m_storage_size * diff)
                 ELSE Min(s.m_storage_size, (t.m_storage_size + diff - 1) \div diff)
        nwritten == IF wider THEN Min(t.m_storage_size, (s.m_storage_size + diff - 1) \div diff)
                    ELSE Min(t.m_storage_size, s.m_storage_size * diff)
        packed[i \in 0..t.m_storage_size, j \in 0..diff] ==
            IF j = diff \/ i * diff + j >= s.m_storage_size THEN 0
            ELSE sb[i * diff + j + 1] * Pow2(j * s.bs) + packed[i, j + 1]
        value(i) == IF wider THEN packed[i, 0]
                    ELSE (sb[i \div diff + 1] \div Pow2((i % diff) * t.bs)) % Pow2(t.bs)
    IN IF M1.fault # "none" \/ nread = 0 \/ nwritten = 0 THEN M1
       ELSE IF ~Accessible(M1, s.m_data, nread - 1) THEN Fault(M1, AccessFault(M1, s.m_data))
       ELSE IF ~Accessible(M1, t.m_data, nwritten - 1) THEN Fault(M1, AccessFault(M1, t.m_data))
       ELSE [M1 EXCEPT !.heap[t.m_data].blk =
                [k \in 1..Len(@) |-> IF k <= nwritten THEN value(k - 1) ELSE @[k]]]

\* dynamic_bitset(const dynamic_bitset<OtherBlockType>& other)
ctor_conv(M, o, bs, other, g) ==
    LET s == M.obj[other]
        partial == s.m_size % bs
        storage == ((s.bs \div 8) \div (bs \div 8)) * s.m_storage_size + NotNot(partial)
    IN _from_other_conv(clear(init_members(M, o, bs, partial, storage, s.m_size, g), o),
                        o, other)

\* dynamic_bitset(size, const dynamic_bitset<OtherBlockType>& other)
ctor_size_conv(M, o, bs, size, other, g) ==
    LET partial == size % bs
        storage == size \div (bs \div 8) + NotNot(partial)
    IN _from_other_conv(clear(init_members(M, o, bs, partial, storage, size, g), o),
                        o, other)

\* ~dynamic_bitset()
dtor(M, o) ==
    LET M1 == delete_array(M, M.obj[o].m_data)
    IN [M1 EXCEPT !.obj[o] = NoObj]

(* ------------------------------ assignment ----------------------------- *)

\* operator=(const dynamic_bitset& other)
copy_assign(M, o, other, g) ==
    LET M1 == clear(M, o)
    IN std_copy(M1, M1.obj[other].m_data,
                Min(M1.obj[o].m_storage_size, M1.obj[other].m_storage_size),
                M1.obj[o].m_data, g)

\* operator=(dynamic_bitset&& other)
move_assign(M, o, other) ==
    LET s == M.obj[other]
        M1 == [M EXCEPT !.obj[o].m_partial_size = s.m_partial_size,
                        !.obj[o].m_storage_size = s.m_storage_size,
                        !.obj[o].m_size = s.m_size,
                        !.obj[o].m_data = s.m_data]
    IN [M1 EXCEPT !.obj[other].m_partial_size = 0,
                  !.obj[other].m_storage_size = 0,
                  !.obj[other].m_size = 0,
                  !.obj[other].m_data = nullptr]

\* _from_integer<T>(value), T an unsigned type of tbits bits: operator=(const T&)
_from_integer(M, o, tbits, value, g) ==
    LET t == M.obj[o]
        bs == t.bs
        diff == tbits \div bs
        want == IF tbits <= bs THEN 1 ELSE diff
        p == FreshId(M)
        M1 == IF t.m_storage_size # want
              THEN LET Ma == delete_array(M, t.m_data)
                       Mb == new_array(Ma, p, want, g, tbits > bs)
                   IN [Mb EXCEPT !.obj[o].m_data = p,
                                 !.obj[o].m_storage_size = want,
                                 !.obj[o].m_size = tbits]
              ELSE M
        q == M1.obj[o].m_data
    IN IF tbits <= bs
       THEN write_block(M1, q, 0, Pow2(bs) - Pow2(tbits) + value)
       ELSE IF M1.fault # "none" THEN M1
       ELSE IF ~Accessible(M1, q, diff - 1) THEN Fault(M1, AccessFault(M1, q))
       ELSE [M1 EXCEPT !.heap[q].blk =
                [k \in 1..Len(@) |-> IF k <= diff
                                     THEN (value \div Pow2((k - 1) * bs)) % Pow2(bs)
                                     ELSE @[k]]]

(* ------------------------- growth and shrinking ------------------------ *)

\* resize(new_size)
resize(M, o, new_size, g) ==
    LET t == M.obj[o]
        p == FreshId(M)
    IN IF new_size = t.m_size THEN M
       ELSE IF new_size = 0
       THEN LET M1 == delete_array(M, t.m_data)
            IN [M1 EXCEPT !.obj[o].m_partial_size = 0, !.obj[o].m_storage_size = 0,
                          !.obj[o].m_size = 0, !.obj[o].m_data = nullptr]
       ELSE LET M1 == new_array(M, p, new_size, g, TRUE)
                M2 == IF t.m_data = nullptr THEN M1
                      ELSE IF t.m_storage_size < new_size
                      THEN memset_blocks(std_copy(M1, t.m_data, t.m_storage_size, p, g),
                                         p, t.m_storage_size, new_size - t.m_storage_size, 0)
                      ELSE std_copy(M1, t.m_data, new_size, p, g)
                M3 == IF t.m_data = nullptr THEN M2 ELSE delete_array(M2, t.m_data)
            IN [M3 EXCEPT !.obj[o].m_partial_size = new_size % t.bs,
                          !.obj[o].m_storage_size = new_size \div t.bs + NotNot(new_size % t.bs),
                          !.obj[o].m_size = new_size,
                          !.obj[o].m_data = p]

\* push_back(value)
push_back(M, o, value, g, ub) ==
    LET t == M.obj[o]
        bs == t.bs
        size1 == (t.m_size + 1) % size_type_mod
        p == FreshId(M)
        M1 == IF t.m_size % bs = 0
              THEN LET storage1 == (t.m_storage_size + 1) % size_type_mod
                       Ma == new_array(M, p, storage1, g, TRUE)
                       Mb == IF t.m_data = nullptr THEN Ma
                             ELSE delete_array(std_copy(Ma, t.m_data, storage1, p, g), t.m_data)
                       Mc == write_block(Mb, p, storage1 - 1, 0)
                   IN [Mc EXCEPT !.obj[o].m_size = size1,
                                 !.obj[o].m_partial_size = 0,
                                 !.obj[o].m_storage_size = storage1,
                                 !.obj[o].m_data = p]
              ELSE [M EXCEPT !.obj[o].m_size = size1,
                             !.obj[o].m_partial_size = (@ + 1) % uint8_mod]
        u == M1.obj[o]
        q == u.m_data
        last == u.m_storage_size - 1
        mask == shl_one(bs, u.m_partial_size - 1, ub)
    IN IF M1.fault # "none" THEN M1
       ELSE IF ~Accessible(M1, q, last) THEN Fault(M1, AccessFault(M1, q))
       ELSE IF value THEN write_block(M1, q, last, BitOr(M1.heap[q].blk[last + 1], mask, bs))
       ELSE write_block(M1, q, last, BitAndNot(M1.heap[q].blk[last + 1], mask, bs))

\* pop_back()
pop_back(M, o, g) ==
    LET t == M.obj[o]
        size1 == (t.m_size + size_type_mod - 1) % size_type_mod
        storage1 == (t.m_storage_size + size_type_mod - 1) % size_type_mod
        size2 == (size1 + size_type_mod - 1) % size_type_mod
        p == FreshId(M)
    IN IF size1 % t.bs = 0
       THEN IF size1 # 0
            THEN LET Ma == new_array(M, p, storage1, g, TRUE)
                     Mb == delete_array(std_copy(Ma, t.m_data, storage1, p, g), t.m_data)
                 IN [Mb EXCEPT !.obj[o].m_partial_size = 0,
                               !.obj[o].m_storage_size = storage1,
                               !.obj[o].m_data = p,
                               !.obj[o].m_size = size2]
            ELSE LET Ma == delete_array(M, t.m_data)
                 IN [Ma EXCEPT !.obj[o].m_partial_size = 0,
                               !.obj[o].m_storage_size = storage1,
                               !.obj[o].m_data = nullptr,
                               !.obj[o].m_size = size2]
       ELSE [M EXCEPT !.obj[o].m_size = size1,
                      !.obj[o].m_partial_size = (@ + uint8_mod - 1) % uint8_mod]

\* the block whose bit i is bits[i], for i in 0..bs-1
block_of(bits, bs) ==
    LET f[i \in 0..bs] == IF i = bs THEN 0 ELSE (IF bits[i] THEN Pow2(i) ELSE 0) + f[i + 1]
    IN f[0]

\* insert(index, value)
insert(M, o, index, value, g, ub) ==
    LET t == M.obj[o]
        bs == t.bs
        p == FreshId(M)
    IN IF index = t.m_size THEN push_back(M, o, value, g, ub)
       ELSE IF t.m_size % bs = 0
       THEN \* a new block is needed: the bits are copied one by one into
            \* new_data, the bits of new_data that no loop writes stay
            \* indeterminate
            LET storage1 == (t.m_storage_size + 1) % size_type_mod
                Ma == new_array(M, p, storage1, g, TRUE)
                newbit(j) == IF j < index THEN test(M, o, j, g)
                             ELSE IF j = index THEN value
                             ELSE IF j <= t.m_size THEN test(M, o, j - 1, g)
                             ELSE BitAt(g, j % bs) = 1
                Mb == IF t.m_data = nullptr \/ Ma.fault # "none" THEN Ma
                      ELSE IF ~Ma.heap[t.m_data].live THEN Fault(Ma, "use_after_free")
                      ELSE LET Mr == IF t.m_size > Len(Ma.heap[t.m_data].blk) * bs
                                     THEN Violation(Ma, "read_out_of_bounds") ELSE Ma
                               Mw == [Mr EXCEPT !.heap[p].blk =
                                         [k \in 1..Len(@) |->
                                             block_of([i \in 0..(bs - 1) |->
                                                          newbit((k - 1) * bs + i)], bs)]]
                           IN delete_array(Mw, t.m_data)
            IN [Mb EXCEPT !.obj[o].m_partial_size = 0,
                          !.obj[o].m_storage_size = storage1,
                          !.obj[o].m_data = p,
                          !.obj[o].m_size = (t.m_size + 1) % size_type_mod]
       ELSE \* room in the last block: const dynamic_bitset tmp_copy(*this),
            \* then set(i + 1, tmp_copy.test(i)) from index up and set(index, value)
            LET Ma == new_array(M, p, t.m_storage_size, g, TRUE)
                Mb == std_copy(Ma, t.m_data, t.m_storage_size, p, g)
                tmp(i) == BitAt(read_block(Mb, p, i \div bs, g), i % bs) = 1
                newbit(j) == IF j = index THEN value ELSE tmp(j - 1)
                first == index \div bs
                last == t.m_size \div bs
                Mc == IF Mb.fault # "none" THEN Mb
                      ELSE IF ~Accessible(Mb, t.m_data, last)
                      THEN Fault(Mb, AccessFault(Mb, t.m_data))
                      ELSE [Mb EXCEPT !.heap[t.m_data].blk =
                               [k \in 1..Len(@) |->
                                   IF k - 1 < first \/ k - 1 > last THEN @[k]
                                   ELSE block_of([i \in 0..(bs - 1) |->
                                                IF (k - 1) * bs + i < index
                                                   \/ (k - 1) * bs + i > t.m_size
                                                THEN BitAt(@[k], i) = 1
                                                ELSE newbit((k - 1) * bs + i)], bs)]]
                Md == delete_array(Mc, p)
            IN [Md EXCEPT !.obj[o].m_partial_size = (@ + 1) % uint8_mod,
                          !.obj[o].m_size = (t.m_size + 1) % size_type_mod]

\* push_back_block(block)
push_back_block(M, o, block, g) ==
    LET t == M.obj[o]
        storage1 == (t.m_storage_size + 1) % size_type_mod
        p == FreshId(M)
        Ma == new_array(M, p, storage1, g, TRUE)
        Mb == IF t.m_data = nullptr THEN Ma
              ELSE delete_array(std_copy(Ma, t.m_data, storage1, p, g), t.m_data)
        Mc == [Mb EXCEPT !.obj[o].m_size = (storage1 * t.bs) % size_type_mod,
                         !.obj[o].m_partial_size = 0,
                         !.obj[o].m_storage_size = storage1,
                         !.obj[o].m_data = p]
    IN write_block(Mc, p, storage1 - 1, block)

\* pop_back_block()
pop_back_block(M, o, g) ==
    LET t == M.obj[o]
        storage1 == (t.m_storage_size + size_type_mod - 1) % size_type_mod
        p == FreshId(M)
        Ma == new_array(M, p, storage1, g, TRUE)
        Mb == IF t.m_data = nullptr THEN Ma
              ELSE delete_array(std_copy(Ma, t.m_data, storage1, p, g), t.m_data)
    IN [Mb EXCEPT !.obj[o].m_size = (storage1 * t.bs) % size_type_mod,
                  !.obj[o].m_partial_size = 0,
                  !.obj[o].m_storage_size = storage1,
                  !.obj[o].m_data = p]

\* an insert_block that ignores the index and always appends
insert_block_appending(M, o, index, block, g) == push_back_block(M, o, block, g)

\* insert_block(index, block)
insert_block(M, o, index, block, g) ==
    LET t == M.obj[o]
        p == FreshId(M)
        Ma == new_array(M, p, t.m_storage_size + 1, g, TRUE)
        Mb == IF t.m_data = nullptr \/ Ma.fault # "none" THEN Ma
              ELSE IF ~Ma.heap[t.m_data].live THEN Fault(Ma, "use_after_free")
              ELSE LET ob == Ma.heap[t.m_data].blk
                       Mr == IF t.m_storage_size > Len(ob)
                             THEN Violation(Ma, "read_out_of_bounds") ELSE Ma
                       old(i) == IF i < Len(ob) THEN ob[i + 1] ELSE g
                       Mw == [Mr EXCEPT !.heap[p].blk =
                                 [k \in 1..Len(@) |->
                                     IF k - 1 < index THEN old(k - 1)
                                     ELSE IF k - 1 = index THEN @[k]
                                     ELSE old(k - 2)]]
                   IN delete_array(Mw, t.m_data)
        Mc == [Mb EXCEPT !.obj[o].m_size = (@ + t.bs) % size_type_mod,
                         !.obj[o].m_storage_size = (@ + 1) % size_type_mod,
                         !.obj[o].m_data = p]
    IN IF index = t.m_storage_size THEN push_back_block(M, o, block, g)
       ELSE write_block(Mc, p, index, block)

(* ------------------------- bits, ranges, flips ------------------------- *)

\* sizeof(BlockType)
sizeof_block(bs) == bs \div 8

\* byte j (0 the least significant) of block value x
ByteAt(x, j) == (x \div Pow2(8 * j)) % 256

\* ::memset(p + from, byte, nbytes): the nbytes bytes from block `from` on
\* become `byte`; a block is stored least significant byte first, so a count
\* that is no multiple of sizeof(BlockType) changes the low bytes of the last
\* block it reaches
memset_bytes(M, p, from, nbytes, byte, bs) ==
    LET sz == sizeof_block(bs)
        first == from * sz
    IN IF M.fault # "none" \/ nbytes <= 0 THEN M
       ELSE IF p = nullptr THEN Fault(M, "null_dereference")
       ELSE IF ~M.heap[p].live THEN Fault(M, "use_after_free")
       ELSE IF first + nbytes > Len(M.heap[p].blk) * sz THEN Fault(M, "write_out_of_bounds")
       ELSE LET byte_of(k, j) ==
                    IF (k - 1) * sz + j >= first /\ (k - 1) * sz + j < first + nbytes
                    THEN byte ELSE ByteAt(M.heap[p].blk[k], j)
                block(k) == IF sz = 1 THEN byte_of(k, 0)
                            ELSE byte_of(k, 0) + 256 * byte_of(k, 1)
            IN [M EXCEPT !.heap[p].blk = [k \in 1..Len(@) |-> block(k)]]

\* the block with exactly the bits lo .. hi - 1 set
bit_span(lo, hi) == IF lo < hi THEN Pow2(hi) - Pow2(lo) ELSE 0

\* for (i = lo; i < hi; ++i) m_data[k] |= BlockType{ 1 } << i;
or_bits(M, o, k, lo, hi) ==
    LET p == M.obj[o].m_data
    IN IF M.fault # "none" \/ lo >= hi THEN M
       ELSE IF ~Accessible(M, p, k) THEN Fault(M, AccessFault(M, p))
       ELSE write_block(M, p, k, BitOr(M.heap[p].blk[k + 1], bit_span(lo, hi), M.obj[o].bs))

\* for (i = lo; i < hi; ++i) m_data[k] &= ~(BlockType{ 1 } << i);
clear_bits(M, o, k, lo, hi) ==
    LET p == M.obj[o].m_data
    IN IF M.fault # "none" \/ lo >= hi THEN M
       ELSE IF ~Accessible(M, p, k) THEN Fault(M, AccessFault(M, p))
       ELSE write_block(M, p, k, BitAndNot(M.heap[p].blk[k + 1], bit_span(lo, hi), M.obj[o].bs))

\* for (i = lo; i < hi; ++i) m_data[k] ^= BlockType{ 1 } << i;
xor_bits(M, o, k, lo, hi) ==
    LET p == M.obj[o].m_data
    IN IF M.fault # "none" \/ lo >= hi THEN M
       ELSE IF ~Accessible(M, p, k) THEN Fault(M, AccessFault(M, p))
       ELSE write_block(M, p, k, BitXor(M.heap[p].blk[k + 1], bit_span(lo, hi), M.obj[o].bs))

\* a flip(index) that flips the bits up to index as well
flip_bit_and_below(M, o, index) ==
    xor_bits(M, o, index \div M.obj[o].bs, 0, (index % M.obj[o].bs) + 1)

\* set(index)
set_bit(M, o, index) ==
    or_bits(M, o, index \div M.obj[o].bs, index % M.obj[o].bs, (index % M.obj[o].bs) + 1)

\* clear(index)
clear_bit(M, o, index) ==
    clear_bits(M, o, index \div M.obj[o].bs, index % M.obj[o].bs, (index % M.obj[o].bs) + 1)

\* flip(index)
flip_bit(M, o, index) ==
    xor_bits(M, o, index \div M.obj[o].bs, index % M.obj[o].bs, (index % M.obj[o].bs) + 1)

\* set(): ::memset(m_data, 255u, m_storage_size * sizeof(BlockType))
set(M, o) ==
    memset_bytes(M, M.obj[o].m_data, 0,
                 (M.obj[o].m_storage_size * sizeof_block(M.obj[o].bs)) % size_type_mod,
                 255, M.obj[o].bs)

\* m_data[i] = ~m_data[i] for the blocks from .. to - 1
flip_blocks(M, o, from, to) ==
    LET p == M.obj[o].m_data
    IN IF M.fault # "none" \/ from >= to THEN M
       ELSE IF ~Accessible(M, p, to - 1) \/ ~Accessible(M, p, from)
            THEN Fault(M, AccessFault(M, p))
       ELSE [M EXCEPT !.heap[p].blk =
                [k \in 1..Len(@) |-> IF k > from /\ k <= to
                                     THEN block_max(M.obj[o].bs) - @[k] ELSE @[k]]]

\* flip()
flip(M, o) == flip_blocks(M, o, 0, M.obj[o].m_storage_size)

\* to_add of the range functions: 1 when begin is unaligned (the bits of the
\* begin block are written one by one), otherwise 0
range_to_add(bs, begin) == IF begin % bs # 0 THEN 1 ELSE 0

\* to_sub of the range functions: 1 when end is unaligned and lies in another
\* block than begin, otherwise 0
range_to_sub(bs, begin, end) ==
    IF end % bs # 0 /\ begin \div bs # end \div bs THEN 1 ELSE 0

\* the block the ::memset of the range functions starts at
range_memset_first(bs, begin) == begin \div bs + range_to_add(bs, begin)

\* its byte count, (end - begin) / m_block_size * sizeof(BlockType) - to_sub,
\* in size_type
range_memset_count(bs, begin, end) ==
    ((((end - begin) % size_type_mod) \div bs) * sizeof_block(bs)
         - range_to_sub(bs, begin, end) + size_type_mod) % size_type_mod

\* the three phases fill_range, set_range and clear_range share: the bits of
\* the begin block when begin is unaligned, the bits of the end block when end
\* is unaligned and in another block, and a memset of
\* (end - begin) / m_block_size * sizeof(BlockType) - to_sub bytes from block
\* begin / m_block_size + to_add on
range_phases(M, o, begin, end, value) ==
    LET bs == M.obj[o].bs
        head == begin % bs # 0
        tail == end % bs # 0 /\ begin \div bs # end \div bs
        end_bit == IF begin \div bs = end \div bs THEN end % bs ELSE bs
        Ma == IF ~head THEN M
              ELSE IF value THEN or_bits(M, o, begin \div bs, begin % bs, end_bit)
              ELSE clear_bits(M, o, begin \div bs, begin % bs, end_bit)
        Mb == IF ~tail THEN Ma
              ELSE IF value THEN or_bits(Ma, o, end \div bs, 0, end % bs)
              ELSE clear_bits(Ma, o, end \div bs, 0, end % bs)
    IN memset_bytes(Mb, M.obj[o].m_data, range_memset_first(bs, begin),
                    range_memset_count(bs, begin, end), IF value THEN 255 ELSE 0, bs)

\* fill_range(begin, end, value)
fill_range(M, o, begin, end, value) == range_phases(M, o, begin, end, value)

\* set_range(begin, end)
set_range(M, o, begin, end) == range_phases(M, o, begin, end, TRUE)

\* clear_range(begin, end)
clear_range(M, o, begin, end) == range_phases(M, o, begin, end, FALSE)

\* flip_range(begin, end)
flip_range(M, o, begin, end) ==
    LET bs == M.obj[o].bs
        head == begin % bs # 0
        Ma == IF head THEN xor_bits(M, o, begin \div bs, begin % bs, bs) ELSE M
        Mb == flip_blocks(Ma, o, begin \div bs + (IF head THEN 1 ELSE 0), end \div bs)
    IN xor_bits(Mb, o, end \div bs, 0, end % bs)

\* set_range(end): ::memset of end / m_block_size blocks, then the bits
\* 0 .. end % m_block_size - 1 of block end / m_block_size
set_range_to(M, o, end) ==
    LET bs == M.obj[o].bs
        Ma == memset_bytes(M, M.obj[o].m_data, 0,
                           ((end \div bs) * sizeof_block(bs)) % size_type_mod, 255, bs)
    IN or_bits(Ma, o, end \div bs, 0, end % bs)

\* clear_range(end)
clear_range_to(M, o, end) ==
    LET bs == M.obj[o].bs
        Ma == memset_bytes(M, M.obj[o].m_data, 0,
                           ((end \div bs) * sizeof_block(bs)) % size_type_mod, 0, bs)
    IN clear_bits(Ma, o, end \div bs, 0, end % bs)

\* flip_range(end)
flip_range_to(M, o, end) ==
    xor_bits(flip_blocks(M, o, 0, end \div M.obj[o].bs), o, end \div M.obj[o].bs,
             0, end % M.obj[o].bs)

\* fill_range(begin, end, step, value): for (i = begin; i < end; i += step)
RECURSIVE fill_range_step(_, _, _, _, _, _)
fill_range_step(M, o, begin, end, step, value) ==
    IF begin >= end THEN M
    ELSE fill_range_step(set_value(M, o, begin, value), o, begin + step, end, step, value)

\* set_range(begin, end, step)
RECURSIVE set_range_step(_, _, _, _, _)
set_range_step(M, o, begin, end, step) ==
    IF begin >= end THEN M
    ELSE set_range_step(set_bit(M, o, begin), o, begin + step, end, step)

\* clear_range(begin, end, step)
RECURSIVE clear_range_step(_, _, _, _, _)
clear_range_step(M, o, begin, end, step) ==
    IF begin >= end THEN M
    ELSE clear_range_step(clear_bit(M, o, begin), o, begin + step, end, step)

\* flip_range(begin, end, step)
RECURSIVE flip_range_step(_, _, _, _, _)
flip_range_step(M, o, begin, end, step) ==
    IF begin >= end THEN M
    ELSE flip_range_step(flip_bit(M, o, begin), o, begin + step, end, step)

(* ------------------------ queries and operators ----------------------- *)

\* x & y on bs-bit blocks
BitAnd(x, y, bs) ==
    LET f[i \in 0..bs] ==
            IF i = bs THEN 0
            ELSE (IF BitAt(x, i) = 1 /\ BitAt(y, i) = 1 THEN Pow2(i) ELSE 0) + f[i + 1]
    IN f[0]

\* the number of set bits of block x: while (j) { j &= j - 1; ++count; }
PopCount(x, bs) == Cardinality({i \in 0..(bs - 1) : BitAt(x, i) = 1})

\* what a const member function reads of instance o: its members and the
\* blocks of m_data (none when m_data cannot be read)
ValueOf(M, o) ==
    LET t == M.obj[o]
    IN [bs |-> t.bs, m_partial_size |-> t.m_partial_size,
        m_storage_size |-> t.m_storage_size, m_size |-> t.m_size,
        blk |-> IF t.m_data # nullptr /\ M.heap[t.m_data].live
                THEN M.heap[t.m_data].blk ELSE <<>>]

\* m_data[i] of bitset value v; g when the read is past the blocks it has
data_at(v, i, g) == IF i >= 0 /\ i < Len(v.blk) THEN v.blk[i + 1] ELSE g

\* the blocks the loop `for (i = 0; i < n; ++i)` visits: every read past the
\* buffer yields the same g, so one of them stands for all
Visited(v, n) == 0..(Min(n, Len(v.blk) + 1) - 1)

\* m_storage_size - !!m_partial_size, in size_type
full_blocks(v) ==
    (v.m_storage_size - NotNot(v.m_partial_size) + size_type_mod) % size_type_mod

\* m_data[m_size / m_block_size] & BlockType{ 1 } << i
partial_bit(v, i, g, ub) ==
    BitAnd(data_at(v, v.m_size \div v.bs, g), shl_one(v.bs, i, ub), v.bs) # 0

\* all()
all(v, g, ub) ==
    /\ \A i \in Visited(v, full_blocks(v)) : data_at(v, i, g) = block_max(v.bs)
    /\ v.m_partial_size # 0 =>
           \A i \in 0..(v.m_partial_size - 1) : partial_bit(v, i, g, ub)

\* any()
any(v, g, ub) ==
    \/ \E i \in Visited(v, full_blocks(v)) : data_at(v, i, g) # 0
    \/ /\ v.m_partial_size # 0
       /\ \E i \in 0..(v.m_partial_size - 1) : partial_bit(v, i, g, ub)

\* none(), written out in the source as the negation of any()'s loops
none(v, g, ub) ==
    /\ \A i \in Visited(v, full_blocks(v)) : data_at(v, i, g) = 0
    /\ v.m_partial_size # 0 =>
           \A i \in 0..(v.m_partial_size - 1) : ~partial_bit(v, i, g, ub)

\* count(): the set bits of the blocks 0 .. m_storage_size - 1
count(v, g) ==
    LET inside == Min(v.m_storage_size, Len(v.blk))
        f[i \in 0..inside] ==
            IF i = inside THEN 0 ELSE PopCount(v.blk[i + 1], v.bs) + f[i + 1]
    IN (f[0] + (v.m_storage_size - inside) * PopCount(g, v.bs)) % size_type_mod

\* the positions of the set bits of block x
BitsOf(x, bs) == {i \in 0..(bs - 1) : BitAt(x, i) = 1}

\* outcomes of the undefined (1 << m_partial_size) - 1, as the positions of
\* the set bits of the mask: no bit, the bits a shifter that takes the count
\* modulo 32 yields, every bit
UndefinedMasks(partial) == {{}, 0..((partial % 32) - 1), 0..63}

\* const BlockType mask = (1 << m_partial_size) - 1, as the positions of its
\* set bits: the literal 1 is an int, so the shift is defined for counts up
\* to 30 only; 1 << 31 is INT_MIN, from which the subtraction overflows, and
\* counts of 32 and more are undefined (ub)
equality_mask(partial, ub) == IF partial < 31 THEN 0..(partial - 1) ELSE ub

\* (m_data[m_storage_size - 1] & mask) == (other.m_data[m_storage_size - 1] & mask)
\* for last blocks of bs bits whose set bits are A and B
last_block_equal(bs, partial, A, B, ub) ==
    LET mask == equality_mask(partial, ub) \cap 0..(bs - 1)
    IN A \cap mask = B \cap mask

\* x == y; g and h are what reads past the blocks of x and of y yield
operator_eq(x, y, g, h, ub) ==
    /\ x.m_size = y.m_size
    /\ \A i \in Visited(x, full_blocks(x)) \cup Visited(y, full_blocks(x)) :
           data_at(x, i, g) = data_at(y, i, h)
    /\ x.m_partial_size # 0 =>
           last_block_equal(x.bs, x.m_partial_size,
                            BitsOf(data_at(x, x.m_storage_size - 1, g), x.bs),
                            BitsOf(data_at(y, x.m_storage_size - 1, h), x.bs), ub)

\* the two tests operator!= of both classes ends with: false when the masked
\* last blocks are equal, true otherwise
ne_partial(x, y, g, h, ub) ==
    ~(/\ x.m_partial_size # 0
      /\ last_block_equal(x.bs, x.m_partial_size,
                          BitsOf(data_at(x, x.m_storage_size - 1, g), x.bs),
                          BitsOf(data_at(y, x.m_storage_size - 1, h), x.bs), ub))

\* dynamic_bitset::operator!=: the block loop is the body of
\* `if (m_size != other.m_size)` and returns false on a pair of EQUAL blocks
operator_ne(x, y, g, h, ub) ==
    /\ x.m_size # y.m_size =>
           \A i \in Visited(x, full_blocks(x)) \cup Visited(y, full_blocks(x)) :
               data_at(x, i, g) # data_at(y, i, h)
    /\ ne_partial(x, y, g, h, ub)

\* bitset::operator!= (same Size): the block loop always runs
bitset_operator_ne(x, y, g, h, ub) ==
    /\ \A i \in Visited(x, full_blocks(x)) \cup Visited(y, full_blocks(x)) :
           data_at(x, i, g) # data_at(y, i, h)
    /\ ne_partial(x, y, g, h, ub)

\* dynamic_bitset result(m_size): the value the binary operators start from
\* (bitset result; in the fixed class, with the same members)
result_of_size(bs, size) == ValueOf(ctor_size(Empty, 1, bs, size, 0), 1)

\* The binary operators build `result(m_size)` and fill its blocks
\* 0 .. result.m_storage_size - 1; the local is returned in place.

\* operator^ with the connective of operator|
operator_xor_as_or(x, y, g, h) ==
    LET r == result_of_size(x.bs, x.m_size)
    IN [r EXCEPT !.blk = [i \in 1..Len(@) |->
                             BitOr(data_at(x, i - 1, g), data_at(y, i - 1, h), x.bs)]]

\* operator&
operator_and(x, y, g, h) ==
    LET r == result_of_size(x.bs, x.m_size)
    IN [r EXCEPT !.blk = [i \in 1..Len(@) |->
                             BitAnd(data_at(x, i - 1, g), data_at(y, i - 1, h), x.bs)]]

\* operator|
operator_or(x, y, g, h) ==
    LET r == result_of_size(x.bs, x.m_size)
    IN [r EXCEPT !.blk = [i \in 1..Len(@) |->
                             BitOr(data_at(x, i - 1, g), data_at(y, i - 1, h), x.bs)]]

\* operator^
operator_xor(x, y, g, h) ==
    LET r == result_of_size(x.bs, x.m_size)
    IN [r EXCEPT !.blk = [i \in 1..Len(@) |->
                             BitXor(data_at(x, i - 1, g), data_at(y, i - 1, h), x.bs)]]

\* operator-: m_data[i] & ~other.m_data[i]
operator_minus(x, y, g, h) ==
    LET r == result_of_size(x.bs, x.m_size)
    IN [r EXCEPT !.blk = [i \in 1..Len(@) |->
                             BitAndNot(data_at(x, i - 1, g), data_at(y, i - 1, h), x.bs)]]

\* operator~: the loop runs over this->m_storage_size blocks
operator_not(x, g) ==
    LET r == result_of_size(x.bs, x.m_size)
    IN [r EXCEPT !.blk = [i \in 1..Len(@) |->
                             IF i <= x.m_storage_size
                             THEN block_max(x.bs) - data_at(x, i - 1, g) ELSE @[i]]]

(* --------------------------- shifts and rotate ------------------------- *)

\* x >> n stored into a block, 0 <= n < bs
shr_block(x, n) == x \div Pow2(n)

\* x << n stored into a bs-bit block, 0 <= n < bs: the operand is promoted, the
\* bits at bs and above are lost in the store
shl_block(x, n, bs) == (x * Pow2(n)) % Pow2(bs)

\* block i of *this >> shift, from the blocks of x:
\*   (i + block_shift < m_storage_size) ? (m_data[i + block_shift] >> bit_shift) : 0
\*   if (bit_shift > 0 && i + block_shift + 1 < m_storage_size)
\*       |= m_data[i + block_shift + 1] << (m_block_size - bit_shift)
shr_at(x, i, shift, g) ==
    LET block_shift == shift \div x.bs
        bit_shift == shift % x.bs
        low == IF i + block_shift < x.m_storage_size
               THEN shr_block(data_at(x, i + block_shift, g), bit_shift) ELSE 0
        high == IF bit_shift > 0 /\ i + block_shift + 1 < x.m_storage_size
                THEN shl_block(data_at(x, i + block_shift + 1, g), x.bs - bit_shift, x.bs)
                ELSE 0
    IN BitOr(low, high, x.bs)

\* block i of *this << shift, from the blocks of x:
\*   i >= block_shift ? m_data[i - block_shift] << bit_shift : 0
\*   if (bit_shift > 0 && i >= block_shift + 1)
\*       |= m_data[i - block_shift - 1] >> m_block_size - bit_shift
shl_at(x, i, shift, g) ==
    LET block_shift == shift \div x.bs
        bit_shift == shift % x.bs
        low == IF i >= block_shift
               THEN shl_block(data_at(x, i - block_shift, g), bit_shift, x.bs) ELSE 0
        high == IF bit_shift > 0 /\ i >= block_shift + 1
                THEN shr_block(data_at(x, i - block_shift - 1, g), x.bs - bit_shift)
                ELSE 0
    IN BitOr(low, high, x.bs)

\* operator>>(shift): result(m_size), blocks 0 .. m_storage_size - 1 written
operator_shr(x, shift, g) ==
    LET r == result_of_size(x.bs, x.m_size)
    IN [r EXCEPT !.blk = [i \in 1..Len(@) |->
                             IF i <= x.m_storage_size THEN shr_at(x, i - 1, shift, g)
                             ELSE @[i]]]

\* operator<<(shift)
operator_shl(x, shift, g) ==
    LET r == result_of_size(x.bs, x.m_size)
    IN [r EXCEPT !.blk = [i \in 1..Len(@) |->
                             IF i <= x.m_storage_size THEN shl_at(x, i - 1, shift, g)
                             ELSE @[i]]]

\* instance o with the blocks 0 .. m_storage_size - 1 of m_data replaced by
\* new[0 ..]; the loop writes every one of them
with_blocks(M, o, new) ==
    LET t == M.obj[o]
    IN IF M.fault # "none" \/ t.m_storage_size = 0 THEN M
       ELSE IF ~Accessible(M, t.m_data, t.m_storage_size - 1)
       THEN Fault(M, AccessFault(M, t.m_data))
       ELSE [M EXCEPT !.heap[t.m_data].blk =
                [k \in 1..Len(@) |-> IF k <= t.m_storage_size THEN new[k - 1] ELSE @[k]]]

\* operator>>=(shift): clear() when shift > m_block_size; otherwise the loop
\* of operator>> run on m_data itself, i ascending: the blocks it reads, at
\* i + block_shift and above, are not yet written when block i is
operator_shr_assign(M, o, shift, g) ==
    LET x == ValueOf(M, o)
    IN IF shift > x.bs THEN clear(M, o)
       ELSE with_blocks(M, o, [i \in 0..(x.m_storage_size - 1) |-> shr_at(x, i, shift, g)])

\* operator<<=(shift): the loop of operator<< run on m_data itself, i
\* ascending: m_data[i - block_shift] is read after it was written when
\* block_shift > 0, m_data[i - block_shift - 1] always
operator_shl_assign(M, o, shift, g) ==
    LET x == ValueOf(M, o)
        bs == x.bs
        block_shift == shift \div bs
        bit_shift == shift % bs
        new[i \in 0..(x.m_storage_size - 1)] ==
            LET low == IF i >= block_shift
                       THEN shl_block(IF block_shift = 0 THEN data_at(x, i, g)
                                      ELSE new[i - block_shift], bit_shift, bs)
                       ELSE 0
                high == IF bit_shift > 0 /\ i >= block_shift + 1
                        THEN shr_block(new[i - block_shift - 1], bs - bit_shift)
                        ELSE 0
            IN BitOr(low, high, bs)
    IN with_blocks(M, o, new)

\* for (i = from; i < m_size; ++i) set(i, tmp_cpy.test((i + shift) % m_size));
RECURSIVE rotate_from(_, _, _, _, _, _)
rotate_from(M, o, tmp, shift, from, g) ==
    IF from >= M.obj[o].m_size \/ M.fault # "none" THEN M
    ELSE rotate_from(set_value(M, o, from,
                               test(M, tmp, ((from + shift) % size_type_mod) % M.obj[o].m_size, g)),
                     o, tmp, shift, from + 1, g)

\* rotate(shift): const dynamic_bitset tmp_cpy = *this; the loop; tmp_cpy is
\* destroyed on return.  tmp is the instance the copy is made in.
rotate(M, o, tmp, shift, g) ==
    dtor(rotate_from(ctor_copy(M, tmp, o, g), o, tmp, shift, 0, g), tmp)

(* ------------------- bitset<BlockType, Size>: strings ------------------ *)

\* the value-initialised character std::basic_string<Elem>(Size + 1, 0) is
\* filled with
NulChar == "\\0"

\* bitset<BlockType, Size> with m_data{ 0 }: the members are the constants
\* m_partial_size = Size % m_block_size and
\* m_storage_size = Size / m_block_size + !!m_partial_size, the array holds
\* m_storage_size zero blocks
bitset_zero(M, o, bs, Size) ==
    clear(init_members(M, o, bs, Size % bs, Size \div bs + NotNot(Size % bs), Size, 0), o)

\* bitset::_from_string(str, set_chr): bit j of block i is or-ed in when
\* str[i * m_block_size + j] == set_chr; the loops return at the end of str
_from_string(M, o, str, set_chr) ==
    LET t == M.obj[o]
        bs == t.bs
        chars(i) == block_of([j \in 0..(bs - 1) |->
                                 /\ i * bs + j < Len(str)
                                 /\ str[i * bs + j + 1] = set_chr], bs)
    IN IF M.fault # "none" \/ t.m_storage_size = 0 THEN M
       ELSE IF ~Accessible(M, t.m_data, t.m_storage_size - 1)
       THEN Fault(M, AccessFault(M, t.m_data))
       ELSE [M EXCEPT !.heap[t.m_data].blk =
                [k \in 1..Len(@) |-> IF k <= t.m_storage_size
                                     THEN BitOr(@[k], chars(k - 1), bs) ELSE @[k]]]

\* bitset(const std::basic_string<Elem>& str, const Elem& set_chr)
bitset_ctor_string(M, o, bs, Size, str, set_chr) ==
    _from_string(bitset_zero(M, o, bs, Size), o, str, set_chr)

\* bitset::to_string(set_chr, rst_chr) of value v: result(Size + 1, 0); the
\* characters of the full blocks are written from m_data[i] bit j, the
\* m_partial_size characters of the last block from m_data[i] bit i, i the
\* position in that block
to_string(v, set_chr, rst_chr, g) ==
    LET bs == v.bs
        full == full_blocks(v)
        last == (v.m_storage_size - 1) * bs
        chr(x, j) == IF BitAt(x, j) = 1 THEN set_chr ELSE rst_chr
    IN [k \in 1..(v.m_size + 1) |->
           IF v.m_storage_size # 0 /\ k - 1 >= last /\ k - 1 - last < v.m_partial_size
           THEN chr(data_at(v, k - 1 - last, g), k - 1 - last)
           ELSE IF k - 1 < full * bs THEN chr(data_at(v, (k - 1) \div bs, g), (k - 1) % bs)
           ELSE NulChar]

(* -------------------------------- actions ------------------------------ *)

Cur == Machine(obj, heap)

\* values of the integer types assigned from
IntegerInputs(tbits) == {0, 5, Pow2(tbits) - 1}

Entry(op, o, other, n, b, M2) ==
    [op |-> op, o |-> o, other |-> other, n |-> n, b |-> b,
     pre_obj |-> obj, pre_heap |-> heap, viol |-> M2.viol]

\* the operation `op` took the machine to M2
Step(op, o, other, n, b, M2) ==
    /\ obj' = M2.obj
    /\ heap' = M2.heap
    /\ fault' = M2.fault
    /\ hist' = <<Entry(op, o, other, n, b, M2)>> \o (IF hist = <<>> THEN <<>> ELSE <<hist[1]>>)
    /\ done' = done \cup {op}
    /\ nops' = nops + 1

Running == fault = "none" /\ nops < MaxOps

Init ==
    \E bs \in BlockSizes, size \in 0..MaxSize :
        \E M \in {ctor_default(Empty, 1, bs), ctor_size(Empty, 1, bs, size, 0)}
                 \cup {ctor_size_val(Empty, 1, bs, size, v, 0) : v \in BOOLEAN}
                 \cup {ctor_size_block(Empty, 1, bs, size, b, 0) : b \in BlockInputs} :
            /\ obj = M.obj
            /\ heap = M.heap
            /\ fault = M.fault
            /\ hist = <<[op |-> "construct", o |-> 1, other |-> 1, n |-> size, b |-> FALSE,
                         pre_obj |-> Empty.obj, pre_heap |-> Empty.heap, viol |-> {}]>>
            /\ done = {}
            /\ nops = 0

CopyConstruct ==
    \E o \in Objs, other \in Objs, g \in Indeterminate :
        /\ Running /\ ~obj[o].alive /\ obj[other].alive
        /\ Step("copy_construct", o, other, 0, FALSE, ctor_copy(Cur, o, other, g))

SizeCopyConstruct ==
    \E o \in Objs, other \in Objs, size \in 0..MaxSize, g \in Indeterminate :
        /\ Running /\ ~obj[o].alive /\ obj[other].alive
        /\ Step("size_copy_construct", o, other, size, FALSE,
                ctor_size_copy(Cur, o, size, other, g))

MoveConstruct ==
    \E o \in Objs, other \in Objs, g \in Indeterminate :
        /\ Running /\ ~obj[o].alive /\ obj[other].alive
        /\ Step("move_construct", o, other, 0, FALSE, ctor_move(Cur, o, other, g))

ConvConstruct ==
    \E o \in Objs, other \in Objs, bs \in BlockSizes, g \in Indeterminate :
        /\ Running /\ ~obj[o].alive /\ obj[other].alive /\ bs # obj[other].bs
        /\ Step("conv_construct", o, other, 0, FALSE, ctor_conv(Cur, o, bs, other, g))

SizeConvConstruct ==
    \E o \in Objs, other \in Objs, bs \in BlockSizes, size \in 0..MaxSize, g \in Indeterminate :
        /\ Running /\ ~obj[o].alive /\ obj[other].alive /\ bs # obj[other].bs
        /\ Step("size_conv_construct", o, other, size, FALSE,
                ctor_size_conv(Cur, o, bs, size, other, g))

Destroy ==
    \E o \in Objs :
        /\ Running /\ obj[o].alive
        /\ Step("destroy", o, o, 0, FALSE, dtor(Cur, o))

CopyAssign ==
    \E o \in Objs, other \in Objs, g \in Indeterminate :
        /\ Running /\ obj[o].alive /\ obj[other].alive /\ obj[o].bs = obj[other].bs
        /\ Step("copy_assign", o, other, 0, FALSE, copy_assign(Cur, o, other, g))

MoveAssign ==
    \E o \in Objs, other \in Objs :
        /\ Running /\ obj[o].alive /\ obj[other].alive /\ obj[o].bs = obj[other].bs
        /\ Step("move_assign", o, other, 0, FALSE, move_assign(Cur, o, other))

IntegerAssign ==
    \E o \in Objs, tbits \in BlockSizes, g \in Indeterminate :
        \E value \in IntegerInputs(tbits) :
            /\ Running /\ obj[o].alive
            /\ Step("integer_assign", o, o, value, FALSE, _from_integer(Cur, o, tbits, value, g))

Resize ==
    \E o \in Objs, new_size \in 0..MaxSize, g \in Indeterminate :
        /\ Running /\ obj[o].alive
        /\ Step("resize", o, o, new_size, FALSE, resize(Cur, o, new_size, g))

PushBack ==
    \E o \in Objs, value \in BOOLEAN, g \in Indeterminate, ub \in UndefinedShift :
        /\ Running /\ obj[o].alive
        /\ Step("push_back", o, o, 0, value, push_back(Cur, o, value, g, ub))

\* the caller's part of the contract: the bitset is not empty
PopBack ==
    \E o \in Objs, g \in Indeterminate :
        /\ Running /\ obj[o].alive /\ obj[o].m_size >= 1
        /\ Step("pop_back", o, o, 0, FALSE, pop_back(Cur, o, g))

\* the caller's part of the contract: index <= size
Insert ==
    \E o \in Objs, index \in 0..MaxSize, value \in BOOLEAN,
       g \in Indeterminate, ub \in UndefinedShift :
        /\ Running /\ obj[o].alive /\ index <= obj[o].m_size
        /\ Step("insert", o, o, index, value, insert(Cur, o, index, value, g, ub))

PushBackBlock ==
    \E o \in Objs, block \in BlockInputs, g \in Indeterminate :
        /\ Running /\ obj[o].alive
        /\ Step("push_back_block", o, o, block, FALSE, push_back_block(Cur, o, block, g))

\* the caller's part of the contract: there is a block to remove
PopBackBlock ==
    \E o \in Objs, g \in Indeterminate :
        /\ Running /\ obj[o].alive /\ obj[o].m_storage_size > 0
        /\ Step("pop_back_block", o, o, 0, FALSE, pop_back_block(Cur, o, g))

\* the caller's part of the contract: index <= storage_size; `other` of the
\* entry carries the index, n the block
InsertBlock ==
    \E o \in Objs, index \in 0..MaxSize, block \in BlockInputs, g \in Indeterminate :
        /\ Running /\ obj[o].alive /\ index <= obj[o].m_storage_size
        /\ Step("insert_block", o, index, block, FALSE, insert_block(Cur, o, index, block, g))

Next ==
    \/ CopyConstruct
    \/ SizeCopyConstruct
    \/ MoveConstruct
    \/ ConvConstruct
    \/ SizeConvConstruct
    \/ Destroy
    \/ CopyAssign
    \/ MoveAssign
    \/ IntegerAssign
    \/ Resize
    \/ PushBack
    \/ PopBack
    \/ Insert
    \/ PushBackBlock
    \/ PopBackBlock
    \/ InsertBlock

Spec == Init /\ [][Next]_vars

(* ------------------ one call on a constructed bitset ------------------ *)

\* the call `op` took the machine to M2 and returned ret
Call(op, o, other, n, b, M2, ret) ==
    /\ obj' = M2.obj
    /\ heap' = M2.heap
    /\ fault' = M2.fault
    /\ hist' = <<[op |-> op, o |-> o, other |-> other, n |-> n, b |-> b,
                  pre_obj |-> obj, pre_heap |-> heap, viol |-> M2.viol, ret |-> ret]>>
               \o (IF hist = <<>> THEN <<>> ELSE <<hist[1]>>)
    /\ done' = done \cup {op}
    /\ nops' = nops + 1

\* the call is the first one made after the construction
Callable == fault = "none" /\ hist[1].op \in {"construct", "start"}

\* the block values of a second operand of block width bs
OperandBlocks(bs) == {b \in {0, 15, 165, 255, 3855} : b <= block_max(bs)}

\* a bitset of up to MaxBits bits made by the fill constructors
CallInit ==
    \E bs \in BlockSizes, size \in 0..MaxBits :
        \E M \in {ctor_size_val(Empty, 1, bs, size, v, 0) : v \in BOOLEAN}
                 \cup {ctor_size_block(Empty, 1, bs, size, b, 0) : b \in BlockInputs} :
            /\ obj = M.obj
            /\ heap = M.heap
            /\ fault = M.fault
            /\ hist = <<[op |-> "construct", o |-> 1, other |-> 1, n |-> size, b |-> FALSE,
                         pre_obj |-> Empty.obj, pre_heap |-> Empty.heap, viol |-> {}]>>
            /\ done = {}
            /\ nops = 0

\* the caller's part of the contract of the range functions
RangeOf(begin, end) == begin <= end /\ end <= obj[1].m_size

\* in the entries of the range calls `other` is begin, n is end, b the value
\* and ret the step (0 for the calls without one)
SetRange ==
    \E begin \in 0..MaxBits, end \in 0..MaxBits :
        /\ Callable /\ RangeOf(begin, end)
        /\ Call("set_range", 1, begin, end, TRUE, set_range(Cur, 1, begin, end), 0)

ClearRange ==
    \E begin \in 0..MaxBits, end \in 0..MaxBits :
        /\ Callable /\ RangeOf(begin, end)
        /\ Call("clear_range", 1, begin, end, FALSE, clear_range(Cur, 1, begin, end), 0)

FillRange ==
    \E begin \in 0..MaxBits, end \in 0..MaxBits, value \in BOOLEAN :
        /\ Callable /\ RangeOf(begin, end)
        /\ Call("fill_range", 1, begin, end, value, fill_range(Cur, 1, begin, end, value), 0)

FlipRange ==
    \E begin \in 0..MaxBits, end \in 0..MaxBits :
        /\ Callable /\ RangeOf(begin, end)
        /\ Call("flip_range", 1, begin, end, FALSE, flip_range(Cur, 1, begin, end), 0)

SetRangeStep ==
    \E begin \in 0..MaxBits, end \in 0..MaxBits, step \in 1..MaxStep :
        /\ Callable /\ RangeOf(begin, end)
        /\ Call("set_range_step", 1, begin, end, TRUE,
                set_range_step(Cur, 1, begin, end, step), step)

ClearRangeStep ==
    \E begin \in 0..MaxBits, end \in 0..MaxBits, step \in 1..MaxStep :
        /\ Callable /\ RangeOf(begin, end)
        /\ Call("clear_range_step", 1, begin, end, FALSE,
                clear_range_step(Cur, 1, begin, end, step), step)

FillRangeStep ==
    \E begin \in 0..MaxBits, end \in 0..MaxBits, step \in 1..MaxStep, value \in BOOLEAN :
        /\ Callable /\ RangeOf(begin, end)
        /\ Call("fill_range_step", 1, begin, end, value,
                fill_range_step(Cur, 1, begin, end, step, value), step)

FlipRangeStep ==
    \E begin \in 0..MaxBits, end \in 0..MaxBits, step \in 1..MaxStep :
        /\ Callable /\ RangeOf(begin, end)
        /\ Call("flip_range_step", 1, begin, end, FALSE,
                flip_range_step(Cur, 1, begin, end, step), step)

\* the single bit functions are called with index < size
SetBit ==
    \E index \in 0..MaxBits :
        /\ Callable /\ index < obj[1].m_size
        /\ Call("set_bit", 1, 1, index, TRUE, set_bit(Cur, 1, index), 0)

SetBitValue ==
    \E index \in 0..MaxBits, value \in BOOLEAN :
        /\ Callable /\ index < obj[1].m_size
        /\ Call("set_value", 1, 1, index, value, set_value(Cur, 1, index, value), 0)

ClearBit ==
    \E index \in 0..MaxBits :
        /\ Callable /\ index < obj[1].m_size
        /\ Call("clear_bit", 1, 1, index, FALSE, clear_bit(Cur, 1, index), 0)

FlipBit ==
    \E index \in 0..MaxBits :
        /\ Callable /\ index < obj[1].m_size
        /\ Call("flip_bit", 1, 1, index, FALSE, flip_bit(Cur, 1, index), 0)

\* the second operand: instance 2, made by the block constructor with the
\* size of instance 1 or a size next to it
Operand(size, block) == ctor_size_block(Cur, 2, obj[1].bs, size, block, 0)

OperandSizes == {n \in {obj[1].m_size - 1, obj[1].m_size, obj[1].m_size + 1} : n >= 0}

\* in the entries of the comparisons and operators `other` is the second
\* operand and ret the value returned
Equals ==
    \E size \in OperandSizes, block \in OperandBlocks(obj[1].bs),
       g \in Indeterminate, h \in Indeterminate, ub \in UndefinedMasks(obj[1].m_partial_size) :
        LET M2 == Operand(size, block)
        IN /\ Callable
           /\ Call("operator_eq", 1, 2, size, FALSE, M2,
                   operator_eq(ValueOf(M2, 1), ValueOf(M2, 2), g, h, ub))

NotEquals ==
    \E size \in OperandSizes, block \in OperandBlocks(obj[1].bs),
       g \in Indeterminate, h \in Indeterminate, ub \in UndefinedMasks(obj[1].m_partial_size) :
        LET M2 == Operand(size, block)
        IN /\ Callable
           /\ Call("operator_ne", 1, 2, size, FALSE, M2,
                   operator_ne(ValueOf(M2, 1), ValueOf(M2, 2), g, h, ub))

\* two bitset<BlockType, Size> have the same Size
BitsetNotEquals ==
    \E block \in OperandBlocks(obj[1].bs),
       g \in Indeterminate, h \in Indeterminate, ub \in UndefinedMasks(obj[1].m_partial_size) :
        LET M2 == Operand(obj[1].m_size, block)
        IN /\ Callable
           /\ Call("bitset_operator_ne", 1, 2, obj[1].m_size, FALSE, M2,
                   bitset_operator_ne(ValueOf(M2, 1), ValueOf(M2, 2), g, h, ub))

\* the bitwise operators are applied to operands of the same size
And ==
    \E block \in OperandBlocks(obj[1].bs), g \in Indeterminate, h \in Indeterminate :
        LET M2 == Operand(obj[1].m_size, block)
        IN /\ Callable
           /\ Call("operator_and", 1, 2, 0, FALSE, M2,
                   operator_and(ValueOf(M2, 1), ValueOf(M2, 2), g, h))

Or ==
    \E block \in OperandBlocks(obj[1].bs), g \in Indeterminate, h \in Indeterminate :
        LET M2 == Operand(obj[1].m_size, block)
        IN /\ Callable
           /\ Call("operator_or", 1, 2, 0, FALSE, M2,
                   operator_or(ValueOf(M2, 1), ValueOf(M2, 2), g, h))

Xor ==
    \E block \in OperandBlocks(obj[1].bs), g \in Indeterminate, h \in Indeterminate :
        LET M2 == Operand(obj[1].m_size, block)
        IN /\ Callable
           /\ Call("operator_xor", 1, 2, 0, FALSE, M2,
                   operator_xor(ValueOf(M2, 1), ValueOf(M2, 2), g, h))

Minus ==
    \E block \in OperandBlocks(obj[1].bs), g \in Indeterminate, h \in Indeterminate :
        LET M2 == Operand(obj[1].m_size, block)
        IN /\ Callable
           /\ Call("operator_minus", 1, 2, 0, FALSE, M2,
                   operator_minus(ValueOf(M2, 1), ValueOf(M2, 2), g, h))

Not ==
    \E g \in Indeterminate :
        /\ Callable
        /\ Call("operator_not", 1, 1, 0, FALSE, Cur, operator_not(ValueOf(Cur, 1), g))

CallNext ==
    \/ SetRange
    \/ ClearRange
    \/ FillRange
    \/ FlipRange
    \/ SetRangeStep
    \/ ClearRangeStep
    \/ FillRangeStep
    \/ FlipRangeStep
    \/ SetBit
    \/ SetBitValue
    \/ ClearBit
    \/ FlipBit
    \/ Equals
    \/ NotEquals
    \/ BitsetNotEquals
    \/ And
    \/ Or
    \/ Xor
    \/ Minus
    \/ Not

CallSpec == CallInit /\ [][CallNext]_vars

(* ------------- operator== on blocks wider than the model's ------------ *)

\* the block types whose values do not fit the integers of the model
WideBlockSizes == {32, 64}

\* no instance is constructed: the operands are given by their set bits
WideInit ==
    /\ obj = Empty.obj
    /\ heap = Empty.heap
    /\ fault = "none"
    /\ hist = <<[op |-> "start", o |-> 1, other |-> 1, n |-> 0, b |-> FALSE,
                 pre_obj |-> Empty.obj, pre_heap |-> Empty.heap, viol |-> {}]>>
    /\ done = {}
    /\ nops = 0

\* a == b for two bitsets of one partial block of W bits (size = partial < W):
\* a has no bit set, b has bit `differ` set.  In the entry `other` is W, n the
\* size, ret.differ the bit and ret.equal the value returned.
EqualsWide ==
    \E W \in WideBlockSizes :
        \E partial \in 1..(W - 1) :
            \E differ \in {0, partial - 1, partial, W - 1}, ub \in UndefinedMasks(partial) :
                /\ Callable
                /\ Call("operator_eq", 1, W, partial, FALSE, Cur,
                        [differ |-> differ,
                         equal |-> last_block_equal(W, partial, {}, {differ}, ub)])

WideNext == EqualsWide

WideSpec == WideInit /\ [][WideNext]_vars

(* ------------------- the public mutating operations ------------------- *)

\* the instance a returned bitset value v is constructed into
returned_into(M, o, v, g) ==
    LET M1 == init_members(M, o, v.bs, v.m_partial_size, v.m_storage_size, v.m_size, g)
    IN IF M1.fault # "none" THEN M1
       ELSE [M1 EXCEPT !.heap[M1.obj[o].m_data].blk = v.blk]

SetAll ==
    \E o \in Objs :
        /\ Running /\ obj[o].alive
        /\ Step("set", o, o, 0, TRUE, set(Cur, o))

ClearAll ==
    \E o \in Objs :
        /\ Running /\ obj[o].alive
        /\ Step("clear", o, o, 0, FALSE, clear(Cur, o))

FlipAll ==
    \E o \in Objs :
        /\ Running /\ obj[o].alive
        /\ Step("flip", o, o, 0, FALSE, flip(Cur, o))

\* dynamic_bitset o(~other);
Complement ==
    \E o \in Objs, other \in Objs, g \in Indeterminate :
        /\ Running /\ ~obj[o].alive /\ obj[other].alive
        /\ Step("operator_not", o, other, 0, FALSE,
                returned_into(Cur, o, operator_not(ValueOf(Cur, other), g), g))

MutNext ==
    \/ SetAll
    \/ ClearAll
    \/ FlipAll
    \/ Complement
    \/ PushBack
    \/ PopBack
    \/ Insert
    \/ Resize

MutSpec == Init /\ [][MutNext]_vars

(* -------------------------- shifting a bitset -------------------------- *)

\* a bitset of up to MaxBits bits made by a fill constructor, one of its end
\* bits then flipped by flip(k) (k = size: no flip)
ShiftInit ==
    \E bs \in BlockSizes, size \in 0..MaxBits :
        \E M0 \in {ctor_size_val(Empty, 1, bs, size, TRUE, 0)}
                  \cup {ctor_size_block(Empty, 1, bs, size, b, 0) : b \in BlockInputs},
           k \in {0, size - 1, size} :
            LET M == IF k >= 0 /\ k < size THEN flip_bit(M0, 1, k) ELSE M0
            IN /\ obj = M.obj
               /\ heap = M.heap
               /\ fault = M.fault
               /\ hist = <<[op |-> "construct", o |-> 1, other |-> 1, n |-> size, b |-> FALSE,
                            pre_obj |-> Empty.obj, pre_heap |-> Empty.heap, viol |-> {}]>>
               /\ done = {}
               /\ nops = 0

\* the shift counts: below, at and above the block width and the number of
\* bits stored, and the largest size_type
ShiftInputs == 0..MaxShift \cup {size_type_mod - 1}

\* in the entries of the shifts and of rotate n is the count; ret is the
\* bitset returned (the binary forms) or 0
ShiftRight ==
    \E shift \in ShiftInputs, g \in Indeterminate :
        /\ Callable
        /\ Call("operator_shr", 1, 1, shift, FALSE, Cur, operator_shr(ValueOf(Cur, 1), shift, g))

ShiftLeft ==
    \E shift \in ShiftInputs, g \in Indeterminate :
        /\ Callable
        /\ Call("operator_shl", 1, 1, shift, FALSE, Cur, operator_shl(ValueOf(Cur, 1), shift, g))

ShiftRightAssign ==
    \E shift \in ShiftInputs, g \in Indeterminate :
        /\ Callable
        /\ Call("operator_shr_assign", 1, 1, shift, FALSE,
                operator_shr_assign(Cur, 1, shift, g), 0)

ShiftLeftAssign ==
    \E shift \in ShiftInputs, g \in Indeterminate :
        /\ Callable
        /\ Call("operator_shl_assign", 1, 1, shift, FALSE,
                operator_shl_assign(Cur, 1, shift, g), 0)

\* the copy rotate works from is made in instance 2
Rotate ==
    \E shift \in ShiftInputs, g \in Indeterminate :
        /\ Callable
        /\ Call("rotate", 1, 1, shift, FALSE, rotate(Cur, 1, 2, shift, g), 0)

ShiftNext ==
    \/ ShiftRight
    \/ ShiftLeft
    \/ ShiftRightAssign
    \/ ShiftLeftAssign
    \/ Rotate

ShiftSpec == ShiftInit /\ [][ShiftNext]_vars

(* ------------------ a fixed bitset made from a string ------------------ *)

\* the pairs (set_chr, rst_chr) the strings are written with
CharPairs == {<<"1", "0">>, <<"x", "-">>}

\* the strings of n characters over the two characters of pair c
StringsOver(c, n) == [1..n -> {c[1], c[2]}]

\* bitset<BlockType, Size> made from a string of Size characters.  In the
\* entry n is Size and ret holds the string and its two characters.
ConstructFromString ==
    \E bs \in BlockSizes, Size \in 1..MaxChars, c \in CharPairs :
        \E str \in StringsOver(c, Size) :
            /\ fault = "none" /\ hist[1].op = "start"
            /\ Call("string_construct", 1, 1, Size, FALSE,
                    bitset_ctor_string(Cur, 1, bs, Size, str, c[1]),
                    [str |-> str, set_chr |-> c[1], rst_chr |-> c[2]])

\* to_string(set_chr, rst_chr) with the characters the bitset was made with;
\* ret is the string returned
ToString ==
    \E g \in Indeterminate :
        /\ fault = "none" /\ hist[1].op = "string_construct"
        /\ Call("to_string", 1, 1, 0, FALSE, Cur,
                to_string(ValueOf(Cur, 1), hist[1].ret.set_chr, hist[1].ret.rst_chr, g))

StringNext ==
    \/ ConstructFromString
    \/ ToString

StringSpec == WideInit /\ [][StringNext]_vars

(* ----------------- the variants of the range functions ---------------- *)

\* in the entries of the prefix calls `other` (begin) is 0 and n is end
SetRangeTo ==
    \E end \in 0..MaxBits :
        /\ Callable /\ RangeOf(0, end)
        /\ Call("set_range_to", 1, 0, end, TRUE, set_range_to(Cur, 1, end), 0)

ClearRangeTo ==
    \E end \in 0..MaxBits :
        /\ Callable /\ RangeOf(0, end)
        /\ Call("clear_range_to", 1, 0, end, FALSE, clear_range_to(Cur, 1, end), 0)

FlipRangeTo ==
    \E end \in 0..MaxBits :
        /\ Callable /\ RangeOf(0, end)
        /\ Call("flip_range_to", 1, 0, end, FALSE, flip_range_to(Cur, 1, end), 0)

VariantNext ==
    \/ SetRangeTo
    \/ ClearRangeTo
    \/ FlipRangeTo
    \/ SetRangeStep
    \/ ClearRangeStep
    \/ FlipRangeStep

VariantSpec == ShiftInit /\ [][VariantNext]_vars

(* ------------------------- what the claims read ------------------------- *)

Last == hist[1]

\* the machine the last operation started in
Pre == Machine(Last.pre_obj, Last.pre_heap)

\* the machine the operation before the last one started in
PrePre == Machine(hist[2].pre_obj, hist[2].pre_heap)

CeilDiv(a, b) == (a + b - 1) \div b

\* test(i) of instance o in machine M
Bit(M, o, i) == test(M, o, i, 0)

\* instance o of machine M is a bitset as the class documents it: the three
\* size members agree and m_data holds the m_storage_size blocks
WellFormed(M, o) ==
    LET t == M.obj[o]
    IN /\ t.alive
       /\ t.m_storage_size = CeilDiv(t.m_size, t.bs)
       /\ t.m_partial_size = t.m_size % t.bs
       /\ t.m_storage_size > 0 => Accessible(M, t.m_data, t.m_storage_size - 1)
       /\ \A q \in Objs : (q # o /\ M.obj[q].alive /\ t.m_data # nullptr)
                              => M.obj[q].m_data # t.m_data

\* the last operation was `op` and ran to its end
Did(op) == fault = "none" /\ Last.op = op

\* the operations claims C1 and C2 are about
Constructors == {"construct", "conv_construct", "size_conv_construct"}
SizeChanging == {"resize", "push_back", "pop_back", "insert", "push_back_block",
                 "pop_back_block", "insert_block"}

(* -------------------------------- claims ------------------------------- *)

\* C1: storage_size == ceil(size / W) holds after every constructor (size,
\* size and fill, conversion from another block type, size and conversion)
\* and after integer assignment, and every resize, push_back, pop_back (of a
\* non-empty bitset), insert, push_back_block, pop_back_block (storage_size >
\* 0) and insert_block keeps it.
C1_StorageSizeIsCeil ==
    (fault = "none" /\ done \subseteq Constructors \cup SizeChanging \cup {"integer_assign"})
        => \A o \in Objs :
               obj[o].alive => obj[o].m_storage_size = CeilDiv(obj[o].m_size, obj[o].bs)

\* C2: partial_size == size mod W in every state reached from a constructor
\* by push_back, pop_back (non-empty), insert, resize, push_back_block,
\* pop_back_block and insert_block.
C2_PartialSizeIsSizeModW ==
    (fault = "none" /\ done \subseteq Constructors \cup SizeChanging)
        => \A o \in Objs :
               obj[o].alive => obj[o].m_partial_size = obj[o].m_size % obj[o].bs

\* C3: in every reachable state the data pointer of a dynamic bitset is null
\* if and only if its size is 0.
C3_NullIffEmpty ==
    fault = "none"
        => \A o \in Objs : obj[o].alive => (obj[o].m_data = nullptr <=> obj[o].m_size = 0)

\* C4: push_back(v) on a bitset of size s makes the size s + 1, makes
\* test(s) equal to v and keeps every bit below s.
C4_PushBackAppends ==
    (Did("push_back") /\ WellFormed(Pre, Last.o))
        => LET o == Last.o
               s == Pre.obj[o].m_size
           IN /\ obj[o].m_size = s + 1
              /\ Accessible(Cur, obj[o].m_data, s \div obj[o].bs)
              /\ Bit(Cur, o, s) = Last.b
              /\ \A i \in 0..(s - 1) : Bit(Cur, o, i) = Bit(Pre, o, i)

\* C5: push_back(v) followed by pop_back() restores the size s and every bit
\* below s.
C5_PushBackPopBackRestores ==
    (Did("pop_back") /\ Len(hist) >= 2 /\ hist[2].op = "push_back" /\ hist[2].o = Last.o
     /\ WellFormed(PrePre, Last.o))
        => LET o == Last.o
               s == PrePre.obj[o].m_size
           IN /\ obj[o].m_size = s
              /\ \A i \in 0..(s - 1) : Bit(Cur, o, i) = Bit(PrePre, o, i)

\* C6: pop_back() on a bitset of size s >= 1 leaves size s - 1 and keeps every
\* bit below s - 1.
C6_PopBackRemovesOneBit ==
    (Did("pop_back") /\ WellFormed(Pre, Last.o) /\ Pre.obj[Last.o].m_size >= 1)
        => LET o == Last.o
               s == Pre.obj[o].m_size
           IN /\ obj[o].m_size = s - 1
              /\ \A i \in 0..(s - 2) : Bit(Cur, o, i) = Bit(Pre, o, i)

\* C7: after move construction or move assignment the destination holds the
\* source's former buffer, size and storage_size, the source has size 0,
\* storage_size 0 and a null pointer, and no two live instances hold the same
\* buffer.
C7_MoveTransfersOwnership ==
    ((Did("move_construct") \/ Did("move_assign")) /\ Last.o # Last.other
     /\ WellFormed(Pre, Last.other))
        => LET d == obj[Last.o]
               s == obj[Last.other]
               was == Pre.obj[Last.other]
           IN /\ d.m_data = was.m_data
              /\ d.m_size = was.m_size
              /\ d.m_storage_size = was.m_storage_size
              /\ s.m_size = 0
              /\ s.m_storage_size = 0
              /\ s.m_data = nullptr
              /\ d.m_data # nullptr => d.m_data # s.m_data

\* C8: after a is copy-constructed or copy-assigned from b, whatever their
\* sizes were, a.size() == b.size(), a.test(i) == b.test(i) below that size,
\* and a's buffer is not b's.
C8_CopyIsDeep ==
    ((Did("copy_construct") \/ Did("copy_assign")) /\ Last.o # Last.other
     /\ WellFormed(Pre, Last.other)
     /\ (Last.op = "copy_assign" => WellFormed(Pre, Last.o)))
        => LET a == Last.o
               b == Last.other
           IN /\ obj[a].m_size = obj[b].m_size
              /\ \A i \in 0..(obj[b].m_size - 1) :
                     /\ Accessible(Cur, obj[a].m_data, i \div obj[a].bs)
                     /\ Bit(Cur, a, i) = Bit(Cur, b, i)
              /\ obj[a].m_data # nullptr => obj[a].m_data # obj[b].m_data

\* C9: resize(new_size) leaves size() == new_size and keeps every bit below
\* min(old size, new_size); when growing, every newly added block is zero,
\* also when the bitset was empty with a null pointer; resize(0) releases
\* the storage and nulls the pointer.
C9_ResizeKeepsPrefixAndZeroFills ==
    (Did("resize") /\ WellFormed(Pre, Last.o))
        => LET o == Last.o
               was == Pre.obj[o]
               n == Last.n
           IN /\ obj[o].m_size = n
              /\ \A i \in 0..(Min(was.m_size, n) - 1) : Bit(Cur, o, i) = Bit(Pre, o, i)
              /\ n > was.m_size =>
                     \A k \in was.m_storage_size..(CeilDiv(n, was.bs) - 1) :
                         /\ Accessible(Cur, obj[o].m_data, k)
                         /\ read_block(Cur, obj[o].m_data, k, 0) = 0
              /\ (n = 0 /\ was.m_size > 0) =>
                     /\ obj[o].m_data = nullptr
                     /\ was.m_data # nullptr => ~heap[was.m_data].live

\* C10: insert(index, v) with index <= s on a bitset of size s gives size
\* s + 1, keeps the bits below index, makes bit index equal to v and moves
\* every old bit i >= index to i + 1.
C10_InsertShiftsUp ==
    (Did("insert") /\ WellFormed(Pre, Last.o) /\ Last.n <= Pre.obj[Last.o].m_size)
        => LET o == Last.o
               s == Pre.obj[o].m_size
               index == Last.n
           IN /\ obj[o].m_size = s + 1
              /\ Accessible(Cur, obj[o].m_data, s \div obj[o].bs)
              /\ \A i \in 0..(index - 1) : Bit(Cur, o, i) = Bit(Pre, o, i)
              /\ Bit(Cur, o, index) = Last.b
              /\ \A i \in index..(s - 1) : Bit(Cur, o, i + 1) = Bit(Pre, o, i)

\* block j of instance o in machine M
BlockOf(M, o, j) == read_block(M, M.obj[o].m_data, j, 0)

\* m_data of instance o holds its m_storage_size blocks
HoldsBlocks(M, o) ==
    LET t == M.obj[o]
    IN /\ t.alive
       /\ t.m_storage_size > 0 => Accessible(M, t.m_data, t.m_storage_size - 1)

\* C11: insert_block(index, b) with index <= storage_size (push_back_block
\* is the case index = storage_size) gives storage_size + 1 blocks: the
\* blocks below index are unchanged, block index is b and every old block
\* j >= index is block j + 1; pop_back_block removes the last block and
\* leaves the others unchanged.
C11_BlockInsertAndPop ==
    LET o == Last.o
        s == Pre.obj[o].m_storage_size
        index == IF Last.op = "insert_block" THEN Last.other ELSE s
    IN /\ ((Did("insert_block") \/ Did("push_back_block")) /\ HoldsBlocks(Pre, o))
            => /\ obj[o].m_storage_size = s + 1
               /\ Accessible(Cur, obj[o].m_data, s)
               /\ \A j \in 0..(index - 1) : BlockOf(Cur, o, j) = BlockOf(Pre, o, j)
               /\ BlockOf(Cur, o, index) = Last.n
               /\ \A j \in index..(s - 1) : BlockOf(Cur, o, j + 1) = BlockOf(Pre, o, j)
       /\ (Did("pop_back_block") /\ HoldsBlocks(Pre, o) /\ s > 0)
            => /\ obj[o].m_storage_size = s - 1
               /\ s > 1 => Accessible(Cur, obj[o].m_data, s - 2)
               /\ \A j \in 0..(s - 2) : BlockOf(Cur, o, j) = BlockOf(Pre, o, j)

\* an insert_block below the end of a bitset of two different blocks, the
\* inserted block different from the one it displaces
C11_Witness ==
    /\ Did("insert_block") /\ HoldsBlocks(Pre, Last.o)
    /\ Pre.obj[Last.o].m_storage_size = 2 /\ Last.other = 1
    /\ BlockOf(Pre, Last.o, 0) # BlockOf(Pre, Last.o, 1)
    /\ Last.n # BlockOf(Pre, Last.o, 1)

\* the calls of the range functions without a step, and with one
RangeCalls == {"set_range", "clear_range", "fill_range", "flip_range"}
StepRangeCalls == {"set_range_step", "clear_range_step", "fill_range_step", "flip_range_step"}

\* C12: for all begin <= end <= size, set_range(begin, end) leaves every bit
\* of [begin, end) set and every bit outside unchanged; clear_range and
\* fill_range(begin, end, value) do the same with false / value.
C12_RangeWritesExactlyTheRange ==
    (Last.op \in {"set_range", "clear_range", "fill_range"} /\ WellFormed(Pre, Last.o))
        => /\ fault = "none"
           /\ \A k \in 0..(Pre.obj[Last.o].m_size - 1) :
                  Bit(Cur, Last.o, k) = IF Last.other <= k /\ k < Last.n THEN Last.b
                                        ELSE Bit(Pre, Last.o, k)

\* C13: for all begin <= end <= size, flip_range(begin, end) complements
\* every bit of [begin, end) and leaves every bit outside unchanged, also
\* when begin is unaligned and end lies in the block of begin.
C13_FlipRangeComplementsTheRange ==
    (Last.op = "flip_range" /\ WellFormed(Pre, Last.o))
        => /\ fault = "none"
           /\ \A k \in 0..(Pre.obj[Last.o].m_size - 1) :
                  Bit(Cur, Last.o, k) = IF Last.other <= k /\ k < Last.n
                                        THEN ~Bit(Pre, Last.o, k)
                                        ELSE Bit(Pre, Last.o, k)

\* C14: fill_range, set_range, clear_range and flip_range, with and without
\* a step, change no bit when begin = end.
C14_EmptyRangeIsNoOp ==
    (Last.op \in RangeCalls \cup StepRangeCalls /\ WellFormed(Pre, Last.o)
        /\ Last.other = Last.n)
        => /\ fault = "none"
           /\ \A k \in 0..(Pre.obj[Last.o].m_size - 1) :
                  Bit(Cur, Last.o, k) = Bit(Pre, Last.o, k)

\* the bit functions called with one index
BitCalls == {"set_bit", "set_value", "clear_bit", "flip_bit"}

\* C15: set(i), set(i, v), clear(i) and flip(i) with i < size give bit i
\* its new value (true, v, false, the complement) and change no other bit
\* of any block.
C15_SingleBitCallsChangeOneBit ==
    (Last.op \in BitCalls /\ WellFormed(Pre, Last.o) /\ Last.n < Pre.obj[Last.o].m_size)
        => LET o == Last.o
               t == Pre.obj[o]
           IN /\ fault = "none"
              /\ obj[o] = t
              /\ Bit(Cur, o, Last.n) = IF Last.op = "flip_bit" THEN ~Bit(Pre, o, Last.n)
                                       ELSE Last.b
              /\ \A k \in 0..(t.m_storage_size * t.bs - 1) :
                     k # Last.n => Bit(Cur, o, k) = Bit(Pre, o, k)

\* a flip of a bit that is not the lowest of its block, in a bitset of more
\* than one block
C15_Witness ==
    /\ Did("flip_bit") /\ WellFormed(Pre, Last.o)
    /\ Pre.obj[Last.o].m_storage_size > 1
    /\ Last.n % obj[Last.o].bs > 0
    /\ Last.n \div obj[Last.o].bs > 0
    /\ Bit(Cur, Last.o, Last.n) # Bit(Pre, Last.o, Last.n)

\* C16: count() called right after set() returns the bit count N, a
\* multiple of the block width or not, and right after clear() it returns 0.
C16_CountAfterSetAndClear ==
    \A g \in Indeterminate :
        /\ (Did("set") /\ WellFormed(Pre, Last.o))
               => count(ValueOf(Cur, Last.o), g) = obj[Last.o].m_size
        /\ (Did("clear") /\ WellFormed(Pre, Last.o))
               => count(ValueOf(Cur, Last.o), g) = 0

\* C17: in every state the mutating operations reach, all() is true iff
\* test(i) holds for every i < size, any() iff it holds for some i < size,
\* and none() is the negation of any(); what is stored past the bits of the
\* bitset (g, ub: what reads there yield) has no influence.
C17_AllAnyNoneReadTheBits ==
    \A o \in Objs, g \in Indeterminate, ub \in UndefinedShift :
        (fault = "none" /\ obj[o].alive)
            => LET v == ValueOf(Cur, o)
                   bits == {i \in 0..(obj[o].m_size - 1) : Bit(Cur, o, i)}
               IN /\ all(v, g, ub) = (Cardinality(bits) = obj[o].m_size)
                  /\ any(v, g, ub) = (bits # {})
                  /\ none(v, g, ub) = ~any(v, g, ub)

\* C18: operator== is true exactly when the sizes are equal and test(i)
\* agrees for every i < size, whatever the bits at and above partial_size
\* hold, for every block width and every partial_size in 1 .. W - 1: the mask
\* (1 << partial_size) - 1 selects the low partial_size bits.  Here for
\* W = 32 and 64, on two one-block bitsets that differ in one bit.
C18_EqualityReadsTheLowBits ==
    (Last.op = "operator_eq" /\ fault = "none")
        => Last.ret.equal = (Last.ret.differ >= Last.n)

\* C19: a != b is the negation of a == b.
C19_NotEqualIsNegation ==
    (Last.op \in {"operator_ne", "bitset_operator_ne"} /\ fault = "none")
        => Last.ret = ~operator_eq(ValueOf(Cur, 1), ValueOf(Cur, 2), 0, 0, {})

\* test(k) of bitset value v
ValueBit(v, k) == BitAt(data_at(v, k \div v.bs, 0), k % v.bs) = 1

BinaryShifts == {"operator_shr", "operator_shl"}
InPlaceShifts == {"operator_shr_assign", "operator_shl_assign"}

\* C21: for << and >> and every shift n >= 0, also a multiple of W and
\* n >= storage_size * W, bit i < size of the result is operand bit i - n
\* (left) or i + n (right) when that index lies in [0, size), and 0
\* otherwise.
C21_ShiftMovesBitsAndZeroFills ==
    LET a == ValueOf(Pre, 1)
        r == Last.ret
        n == Last.n
    IN /\ (Did("operator_shl") /\ WellFormed(Pre, 1)) =>
              \A i \in 0..(a.m_size - 1) :
                  ValueBit(r, i) = (i - n >= 0 /\ ValueBit(a, i - n))
       /\ (Did("operator_shr") /\ WellFormed(Pre, 1)) =>
              \A i \in 0..(a.m_size - 1) :
                  ValueBit(r, i) = (i + n < a.m_size /\ ValueBit(a, i + n))

\* the blocks a shift leaves: of the bitset returned, or of the bitset
\* shifted in place
ShiftedBlocks == IF Last.op \in BinaryShifts THEN Last.ret.blk ELSE ValueOf(Cur, 1).blk

\* C22: for <<, >>, <<= and >>=, a shift by 0 leaves every block unchanged;
\* a left shift by W of a bitset whose size is a multiple of W moves the old
\* block i to block i + 1 and makes block 0 zero.
C22_ShiftIdentity ==
    LET a == ValueOf(Pre, 1)
    IN /\ (Last.op \in BinaryShifts \cup InPlaceShifts /\ WellFormed(Pre, 1) /\ Last.n = 0)
              => (fault = "none" /\ ShiftedBlocks = a.blk)
       /\ (Last.op \in {"operator_shl", "operator_shl_assign"} /\ WellFormed(Pre, 1)
           /\ a.m_size % a.bs = 0 /\ Last.n = a.bs)
              => /\ fault = "none"
                 /\ Len(ShiftedBlocks) = Len(a.blk)
                 /\ \A i \in 1..Len(a.blk) :
                        ShiftedBlocks[i] = IF i = 1 THEN 0 ELSE a.blk[i - 1]

\* C23: for every bitset a of one or more blocks and every shift n (n < W,
\* n = W, n > W), after a <<= n the blocks of a are those of (old a) << n,
\* and after a >>= n they are those of (old a) >> n.
C23_InPlaceShiftsAgree ==
    LET a == ValueOf(Pre, 1)
    IN (Last.op \in InPlaceShifts /\ WellFormed(Pre, 1) /\ a.m_storage_size >= 1)
           => /\ fault = "none"
              /\ ValueOf(Cur, 1).blk = IF Last.op = "operator_shl_assign"
                                       THEN operator_shl(a, Last.n, 0).blk
                                       ELSE operator_shr(a, Last.n, 0).blk

\* C24: for size >= 1 and every n >= 0, rotate(n) leaves the size unchanged
\* and makes the new bit i the old bit (i + n) mod size for every i < size
\* (so that rotate(size - (n mod size)) afterwards restores every bit).
C24_RotateMovesEveryBit ==
    LET size == Pre.obj[1].m_size
    IN (Last.op = "rotate" /\ WellFormed(Pre, 1) /\ size >= 1)
           => /\ fault = "none"
              /\ obj[1].m_size = size
              /\ \A i \in 0..(size - 1) : Bit(Cur, 1, i) = Bit(Pre, 1, (i + Last.n) % size)

\* C25: converting a bitset of block width Ws into one of block width Wd,
\* wider or narrower, keeps the flat bit sequence: the destination has the
\* source's bit count (the size asked for, in the constructor that takes
\* one), enough blocks to hold it, and destination bit i is source bit i for
\* every i below both sizes; the 8-bit blocks 0x01, 0x02 become the 16-bit
\* block 0x0201.
C25_ConversionKeepsTheBits ==
    ((Did("conv_construct") \/ Did("size_conv_construct")) /\ Last.o # Last.other
     /\ WellFormed(Pre, Last.other))
        => LET d == obj[Last.o]
               s == obj[Last.other]
           IN /\ d.m_size = IF Last.op = "conv_construct" THEN s.m_size ELSE Last.n
              /\ d.m_storage_size >= CeilDiv(d.m_size, d.bs)
              /\ \A i \in 0..(Min(d.m_size, s.m_size) - 1) :
                     /\ Accessible(Cur, d.m_data, i \div d.bs)
                     /\ Bit(Cur, Last.o, i) = Bit(Cur, Last.other, i)
              /\ (s.bs = 8 /\ d.bs = 16 /\ ValueOf(Cur, Last.other).blk = <<1, 2>>)
                     => ValueOf(Cur, Last.o).blk = <<513>>

\* C26: a bitset<BlockType, N> made from a string of N characters over
\* {set_chr, rst_chr} returns, from to_string with the same two characters,
\* a string equal to the original: length N, the same character at every
\* position; for N a multiple of W and for N with a partial last block.
C26_StringRoundTrip ==
    (Did("to_string") /\ Len(hist) >= 2 /\ hist[2].op = "string_construct")
        => LET str == hist[2].ret.str
           IN /\ Len(Last.ret) = Len(str)
              /\ \A k \in 1..Len(str) : Last.ret[k] = str[k]

\* C27: in push_back, pop_back, insert, push_back_block, pop_back_block,
\* insert_block and resize, every block read from the old buffer has an index
\* below the number of blocks it was allocated with, every block written to
\* the new buffer has an index below its allocated length, and the old buffer
\* is released exactly once, after the copy.
C27_ReallocationStaysInBounds ==
    (Last.op \in SizeChanging /\ WellFormed(Pre, Last.o))
        => LET old == Pre.obj[Last.o].m_data
           IN /\ "read_out_of_bounds" \notin Last.viol
              /\ fault \notin {"write_out_of_bounds", "use_after_free", "double_free"}
              /\ (fault = "none" /\ old # nullptr /\ obj[Last.o].m_data # old)
                     => ~heap[old].live

\* the calls that fill a range with one ::memset
FillCalls == {"set_range", "clear_range", "fill_range"}

\* C28: in fill_range, set_range and clear_range with begin <= end <= size,
\* the ::memset that starts at block begin / W + to_add with
\* (end - begin) / W * sizeof(Block) - to_sub bytes covers exactly the blocks
\* lying wholly inside [begin, end): the count never wraps below zero and no
\* byte outside those blocks is written.
C28_BulkFillCoversWholeBlocks ==
    (Last.op \in FillCalls /\ WellFormed(Pre, Last.o)
     /\ Last.other <= Last.n /\ Last.n <= Pre.obj[Last.o].m_size)
        => LET bs == Pre.obj[Last.o].bs
               begin == Last.other
               end == Last.n
               first_whole == CeilDiv(begin, bs)
               whole == IF end \div bs > first_whole THEN end \div bs - first_whole ELSE 0
           IN /\ ((end - begin) \div bs) * sizeof_block(bs) - range_to_sub(bs, begin, end) >= 0
              /\ range_memset_count(bs, begin, end) = whole * sizeof_block(bs)
              /\ whole > 0 => range_memset_first(bs, begin) = first_whole
              /\ fault = "none"

\* C29: copy-assigning a dynamic bitset to itself (a = a) leaves its size,
\* its storage_size and the value of every bit unchanged.
C29_SelfAssignmentKeepsTheBits ==
    (Did("copy_assign") /\ Last.o = Last.other /\ WellFormed(Pre, Last.o))
        => LET o == Last.o
           IN /\ obj[o].m_size = Pre.obj[o].m_size
              /\ obj[o].m_storage_size = Pre.obj[o].m_storage_size
              /\ \A i \in 0..(obj[o].m_size - 1) : Bit(Cur, o, i) = Bit(Pre, o, i)

\* machine M ran without fault and instance o has in it the bits it has now
SameBitsAs(M, o) ==
    /\ M.fault = "none"
    /\ \A i \in 0..(obj[o].m_size - 1) : Bit(Cur, o, i) = Bit(M, o, i)

\* C30: for every begin <= end <= size, set_range(end), clear_range(end) and
\* flip_range(end) leave the bits the two-bound variant called with begin = 0
\* leaves, and the strided variant called with step = 1 leaves the bits the
\* two-bound variant with the same begin and end leaves.
C30_RangeVariantsAgree ==
    LET begin == Last.other
        end == Last.n
    IN (fault = "none" /\ WellFormed(Pre, 1)) =>
           /\ Last.op = "set_range_to" => SameBitsAs(set_range(Pre, 1, 0, end), 1)
           /\ Last.op = "clear_range_to" => SameBitsAs(clear_range(Pre, 1, 0, end), 1)
           /\ Last.op = "flip_range_to" => SameBitsAs(flip_range(Pre, 1, 0, end), 1)
           /\ (Last.op = "set_range_step" /\ Last.ret = 1)
                  => SameBitsAs(set_range(Pre, 1, begin, end), 1)
           /\ (Last.op = "clear_range_step" /\ Last.ret = 1)
                  => SameBitsAs(clear_range(Pre, 1, begin, end), 1)
           /\ (Last.op = "flip_range_step" /\ Last.ret = 1)
                  => SameBitsAs(flip_range(Pre, 1, begin, end), 1)

====
